---- MODULE Spec2Model ----
(***************************************************************************)
(* ReGreet: the greetd IPC typestate client (src/greetd) and the session   *)
(* controller GreetdControls (src/gui/component/greetd_controls.rs).       *)
(*                                                                         *)
(* The controller is a relm4 component: update() handles one input         *)
(* message, update_cmd() handles the output of one finished oneshot        *)
(* command.  A oneshot command is an async task that owns the session      *)
(* value moved into it, writes one request, reads one response and then    *)
(* delivers a CommandOutput.  The daemon is the environment: it answers a  *)
(* request with any response the protocol allows for that request, and the *)
(* transport may fail on the write or on the read.                         *)
(*                                                                         *)
(* Strings that the program only copies (usernames, credentials, prompt    *)
(* texts, error descriptions) are numbered 1..N; 0 stands for "no text".   *)
(***************************************************************************)
EXTENDS Naturals, Sequences, FiniteSets

\* ------------------------------------------------------------------ bounds
MaxUsers == 2
MaxCreds == 2
MaxPrompts == 2
MaxDescs == 1

Usernames == 1..MaxUsers
CredentialTexts == 1..MaxCreds
PromptTexts == 1..MaxPrompts
Descriptions == 1..MaxDescs

\* ------------------------------------------------------------ Option values
\* Option<String> (the credential of AdvanceAuthentication, the response of
\* PostAuthMessageResponse) and Option<Vec<String>> (the command).
NoneStr == [some |-> FALSE, val |-> 0]
SomeStr(v) == [some |-> TRUE, val |-> v]
NoneCmd == [some |-> FALSE, val |-> <<>>]
SomeCmd(c) == [some |-> TRUE, val |-> c]

Credentials == {NoneStr} \cup {SomeStr(c) : c \in CredentialTexts}
\* The command lists a parent can configure: an empty list and a real one.
CommandLists == {<<>>, <<"sway">>}
Commands == {NoneCmd} \cup {SomeCmd(c) : c \in CommandLists}
Env == <<"XDG_SESSION_TYPE=wayland">>

\* ---------------------------------------------------------- session values
\* The one duplex channel.  RW is the connection itself (the types Client
\* and StartableSession of the socket implementation); AuthMessage wraps it
\* together with the prompt.  Moved stands in a state that owns no session.
Client == [rw |-> "conn", type |-> "None", message |-> 0]
AuthMessage(rw, type, message) == [rw |-> rw.rw, type |-> type, message |-> message]
Moved == [rw |-> "moved", type |-> "None", message |-> 0]
\* self.rw of an AuthMessage: the connection inside it.
RwOf(session) == [rw |-> session.rw, type |-> "None", message |-> 0]

AuthMessageTypes == {"Visible", "Secret", "Info", "Error"}

\* AuthResponse::message / auth_question / auth_informative: the cached prompt.
message(session) == [type |-> session.type, text |-> session.message]

\* ------------------------------------------------------------- GreetdState
NotCreated(client) ==
    [tag |-> "NotCreated", sub |-> "", session |-> client, loading |-> "", prompt |-> 0]
Startable(session) ==
    [tag |-> "Startable", sub |-> "", session |-> session, loading |-> "", prompt |-> 0]
AuthQuestion(session) ==
    [tag |-> "AuthQuestion", sub |-> "", session |-> session, loading |-> "", prompt |-> 0]
AuthInformativeNotSent(session) ==
    [tag |-> "AuthInformative", sub |-> "NotSent", session |-> session, loading |-> "",
     prompt |-> 0]
WaitingForInfo(text) ==
    [tag |-> "AuthInformative", sub |-> "WaitingForInfo", session |-> Moved,
     loading |-> "", prompt |-> text]
WaitingForError(text) ==
    [tag |-> "AuthInformative", sub |-> "WaitingForError", session |-> Moved,
     loading |-> "", prompt |-> text]
Loading(text) ==
    [tag |-> "Loading", sub |-> "", session |-> Moved, loading |-> text, prompt |-> 0]
SessionStarted ==
    [tag |-> "SessionStarted", sub |-> "", session |-> Moved, loading |-> "", prompt |-> 0]

\* The closures handed to try_cancel / try_start_session / try_auth as
\* `variant`, named by the state they build.
variant(v, session) ==
    CASE v = "NotCreated" -> NotCreated(session)
      [] v = "Startable" -> Startable(session)
      [] v = "AuthQuestion" -> AuthQuestion(session)
      [] v = "AuthInformative" -> AuthInformativeNotSent(session)

\* Mutant of InformativeInto: every informative message waits as an error.
InformativeInto_always_error(session) == WaitingForError(session.message)

\* impl From<AuthInformative> for GreetdInformativeState
InformativeInto(session) ==
    IF session.type = "Info" THEN WaitingForInfo(session.message)
    ELSE WaitingForError(session.message)

\* ------------------------------------------------------------ wire messages
NoRequest == [type |-> "none", username |-> 0, response |-> NoneStr, cmd |-> <<>>, env |-> <<>>]
\* Mutant of CreateSession: the request names a fixed user.
CreateSession_fixed_user(username) ==
    [NoRequest EXCEPT !.type = "create_session", !.username = 1]
CreateSession(username) == [NoRequest EXCEPT !.type = "create_session", !.username = username]
\* Mutant of PostAuthMessageResponse: the response is always null.
PostAuthMessageResponse_always_null(response) ==
    [NoRequest EXCEPT !.type = "post_auth_message_response", !.response = NoneStr]
PostAuthMessageResponse(response) ==
    [NoRequest EXCEPT !.type = "post_auth_message_response", !.response = response]
StartSession(cmd, env) == [NoRequest EXCEPT !.type = "start_session", !.cmd = cmd, !.env = env]
CancelSession == [NoRequest EXCEPT !.type = "cancel_session"]

NoResponse ==
    [type |-> "none", error_type |-> "None", description |-> 0,
     auth_message_type |-> "None", auth_message |-> 0]
Success == [NoResponse EXCEPT !.type = "success"]
ErrorResponse(error_type, description) ==
    [NoResponse EXCEPT !.type = "error", !.error_type = error_type, !.description = description]
AuthMessageResponse(auth_message_type, auth_message) ==
    [NoResponse EXCEPT !.type = "auth_message", !.auth_message_type = auth_message_type,
                       !.auth_message = auth_message]

ErrorResponses == {ErrorResponse(t, d) : t \in {"Error", "AuthError"}, d \in Descriptions}
AuthMessageResponses == {AuthMessageResponse(t, m) : t \in AuthMessageTypes, m \in PromptTexts}

\* ------------------------------------------------------------------ errors
NoError == [kind |-> "None", desc |-> 0]
\* greetd_ipc::codec::Error: the transport or the codec failed.
IoError == [kind |-> "IO", desc |-> 0]
\* Mutant of RequestError: every daemon error becomes RequestError::Error.
RequestError_always_error(error_type, description) == [kind |-> "Error", desc |-> description]

\* The match on error_type: RequestError::Error / RequestError::Auth
RequestError(error_type, description) ==
    [kind |-> IF error_type = "Error" THEN "Error" ELSE "Auth", desc |-> description]

\* ---------------------------------------------------- outcome of an exchange
\* What the transport and the daemon do to one exchange: the write fails, or
\* the write succeeds and the read fails, or the response is read.
WriteFailed == [write |-> FALSE, read |-> FALSE, response |-> NoResponse]
ReadFailed == [write |-> TRUE, read |-> FALSE, response |-> NoResponse]
Answered(response) == [write |-> TRUE, read |-> TRUE, response |-> response]

\* Mutant of make_request: a failed exchange does not give the connection back.
make_request_drops_rw(rw, request, io) ==
    IF ~io.write THEN [ok |-> FALSE, rw |-> Moved, response |-> NoResponse, err |-> IoError]
    ELSE IF ~io.read THEN [ok |-> FALSE, rw |-> Moved, response |-> NoResponse, err |-> IoError]
    ELSE [ok |-> TRUE, rw |-> rw, response |-> io.response, err |-> NoError]

\* make_request: Ok((rw, response)) or Err((rw, error)).
make_request(rw, request, io) ==
    IF ~io.write THEN [ok |-> FALSE, rw |-> rw, response |-> NoResponse, err |-> IoError]
    ELSE IF ~io.read THEN [ok |-> FALSE, rw |-> rw, response |-> NoResponse, err |-> IoError]
    ELSE [ok |-> TRUE, rw |-> rw, response |-> io.response, err |-> NoError]

\* ------------------------------------------------ Response<Client, Current, Next>
\* Err((current, io error)) / Ok(Err((current, request error))) / Ok(Ok(next)).
\* `next` is a CreateSessionResponse [variant, session] or, for start_session
\* and cancel_session, the client [variant |-> "Client", session].
NoNext == [variant |-> "None", session |-> Moved]
IoErr(current, e) ==
    [outer |-> "Err", inner |-> "", next |-> NoNext, current |-> current, err |-> e]
ReqErr(current, e) ==
    [outer |-> "Ok", inner |-> "Err", next |-> NoNext, current |-> current, err |-> e]
OkOk(next) ==
    [outer |-> "Ok", inner |-> "Ok", next |-> next, current |-> Moved, err |-> NoError]

\* Mutant of new_as_create_session: the message keeps a fixed prompt text.
new_as_create_session_fixed_text(rw, type, text) ==
    IF type \in {"Visible", "Secret"}
    THEN [variant |-> "AuthQuestion", session |-> AuthMessage(rw, type, 1)]
    ELSE [variant |-> "AuthInformative", session |-> AuthMessage(rw, type, 1)]

\* AuthMessage::new_as_create_session
new_as_create_session(rw, type, text) ==
    IF type \in {"Visible", "Secret"}
    THEN [variant |-> "AuthQuestion", session |-> AuthMessage(rw, type, text)]
    ELSE [variant |-> "AuthInformative", session |-> AuthMessage(rw, type, text)]

\* impl Greetd for RW: create_session
create_session(self_, username, io) ==
    LET r == make_request(self_, CreateSession(username), io) IN
    IF ~r.ok THEN IoErr(r.rw, r.err)
    ELSE CASE r.response.type = "success" ->
                OkOk([variant |-> "Success", session |-> r.rw])
           [] r.response.type = "error" ->
                ReqErr(r.rw, RequestError(r.response.error_type, r.response.description))
           [] r.response.type = "auth_message" ->
                OkOk(new_as_create_session(r.rw, r.response.auth_message_type,
                                           r.response.auth_message))

\* Mutant of start_session: an error response counts as a success.
start_session_error_is_ok(self_, cmd, env, io) ==
    LET r == make_request(self_, StartSession(cmd, env), io) IN
    IF ~r.ok THEN IoErr(r.rw, r.err)
    ELSE OkOk([variant |-> "Client", session |-> r.rw])

\* impl StartableSession for RW: start_session
start_session(self_, cmd, env, io) ==
    LET r == make_request(self_, StartSession(cmd, env), io) IN
    IF ~r.ok THEN IoErr(r.rw, r.err)
    ELSE CASE r.response.type = "success" ->
                OkOk([variant |-> "Client", session |-> r.rw])
           [] r.response.type = "error" ->
                ReqErr(r.rw, RequestError(r.response.error_type, r.response.description))

\* impl CancellableSession for T: TokioRW: cancel_session on the connection
rw_cancel_session(self_, io) ==
    LET r == make_request(self_, CancelSession, io) IN
    IF ~r.ok THEN IoErr(r.rw, r.err)
    ELSE CASE r.response.type = "success" ->
                OkOk([variant |-> "Client", session |-> r.rw])
           [] r.response.type = "error" ->
                ReqErr(r.rw, RequestError(r.response.error_type, r.response.description))

\* Mutant of respond: a transport failure gives back the bare connection.
respond_io_error_loses_prompt(self_, msg, io) ==
    IF ~io.write THEN IoErr(RwOf(self_), IoError)
    ELSE IF ~io.read THEN IoErr(RwOf(self_), IoError)
    ELSE CASE io.response.type = "success" ->
                OkOk([variant |-> "Success", session |-> RwOf(self_)])
           [] io.response.type = "error" ->
                ReqErr(self_, RequestError(io.response.error_type, io.response.description))
           [] io.response.type = "auth_message" ->
                OkOk(new_as_create_session(RwOf(self_), io.response.auth_message_type,
                                           io.response.auth_message))

\* impl AuthResponse for AuthMessage: respond (its own write and read)
respond(self_, msg, io) ==
    IF ~io.write THEN IoErr(self_, IoError)
    ELSE IF ~io.read THEN IoErr(self_, IoError)
    ELSE CASE io.response.type = "success" ->
                OkOk([variant |-> "Success", session |-> RwOf(self_)])
           [] io.response.type = "error" ->
                ReqErr(self_, RequestError(io.response.error_type, io.response.description))
           [] io.response.type = "auth_message" ->
                OkOk(new_as_create_session(RwOf(self_), io.response.auth_message_type,
                                           io.response.auth_message))

\* Mutant of auth_cancel_session: the message rebuilt on failure lost its text.
auth_cancel_session_drops_prompt(self_, io) ==
    LET result == rw_cancel_session(RwOf(self_), io) IN
    IF result.outer = "Err"
    THEN IoErr([self_ EXCEPT !.rw = result.current.rw, !.message = 0], result.err)
    ELSE IF result.inner = "Ok" THEN OkOk(result.next)
    ELSE ReqErr([self_ EXCEPT !.rw = result.current.rw, !.message = 0], result.err)

\* impl CancellableSession for AuthMessage: cancel the connection inside and
\* rebuild the message around the connection that comes back on failure.
auth_cancel_session(self_, io) ==
    LET result == rw_cancel_session(RwOf(self_), io) IN
    IF result.outer = "Err"
    THEN IoErr([self_ EXCEPT !.rw = result.current.rw], result.err)
    ELSE IF result.inner = "Ok" THEN OkOk(result.next)
    ELSE ReqErr([self_ EXCEPT !.rw = result.current.rw], result.err)

\* CancellableSession::cancel_session by the type of the session value
cancel_session_of(session, io) ==
    IF session.type = "None" THEN rw_cancel_session(session, io)
    ELSE auth_cancel_session(session, io)

\* ------------------------------------------------- Option<String> error text
\* format!("{prefix}{err}"): the text keeps the error it was formatted from.
NoErrorText == [some |-> FALSE, prefix |-> "", err |-> NoError]
Format(prefix, err) == [some |-> TRUE, prefix |-> prefix, err |-> err]
InvalidSessionText ==
    Format("Selected session cannot be executed because it is invalid", NoError)
PendingCancelText == Format("An operation is currently pending, cannot cancel.", NoError)
PendingAdvanceText == Format("An operation is currently pending, cannot cancel", NoError)

\* ------------------------------------------------------ controller helpers
\* Mutant of try_cancel: a successful cancel hands back the cancelled state.
try_cancel_keeps_session(session, v, io) ==
    LET res == cancel_session_of(session, io) IN
    IF res.outer = "Err"
    THEN [greetd_state |-> variant(v, res.current), error |-> Format("IPC error: ", res.err)]
    ELSE IF res.inner = "Ok"
    THEN [greetd_state |-> variant(v, session), error |-> NoErrorText]
    ELSE [greetd_state |-> variant(v, res.current),
          error |-> Format("Reported error: ", res.err)]

try_cancel(session, v, io) ==
    LET res == cancel_session_of(session, io) IN
    IF res.outer = "Err"
    THEN [greetd_state |-> variant(v, res.current), error |-> Format("IPC error: ", res.err)]
    ELSE IF res.inner = "Ok"
    THEN [greetd_state |-> NotCreated(res.next.session), error |-> NoErrorText]
    ELSE [greetd_state |-> variant(v, res.current),
          error |-> Format("Reported error: ", res.err)]

\* Mutant of FromCreateSessionResponse: an informative message becomes a question.
FromCreateSessionResponse_all_questions(next) ==
    CASE next.variant = "Success" -> Startable(next.session)
      [] next.variant = "AuthQuestion" -> AuthQuestion(next.session)
      [] next.variant = "AuthInformative" -> AuthQuestion(next.session)

\* CreateSessionResponse -> GreetdState, as try_create_session and try_auth do
FromCreateSessionResponse(next) ==
    CASE next.variant = "Success" -> Startable(next.session)
      [] next.variant = "AuthQuestion" -> AuthQuestion(next.session)
      [] next.variant = "AuthInformative" -> AuthInformativeNotSent(next.session)

try_create_session(client, username, io) ==
    LET res == create_session(client, username, io) IN
    IF res.outer = "Err"
    THEN [greetd_state |-> NotCreated(res.current), error |-> Format("", res.err)]
    ELSE IF res.inner = "Err"
    THEN [greetd_state |-> NotCreated(res.current), error |-> Format("", res.err)]
    ELSE [greetd_state |-> FromCreateSessionResponse(res.next), error |-> NoErrorText]

\* Mutant of try_start_session: a daemon error drops the session to NotCreated.
try_start_session_resets(session, v, command, env, io) ==
    LET res == start_session(session, command, env, io) IN
    IF res.outer = "Err"
    THEN [greetd_state |-> variant(v, res.current), error |-> Format("", res.err)]
    ELSE IF res.inner = "Ok"
    THEN [greetd_state |-> SessionStarted, error |-> NoErrorText]
    ELSE [greetd_state |-> NotCreated(res.current), error |-> Format("", res.err)]

try_start_session(session, v, command, env, io) ==
    LET res == start_session(session, command, env, io) IN
    IF res.outer = "Err"
    THEN [greetd_state |-> variant(v, res.current), error |-> Format("", res.err)]
    ELSE IF res.inner = "Ok"
    THEN [greetd_state |-> SessionStarted, error |-> NoErrorText]
    ELSE [greetd_state |-> variant(v, res.current), error |-> Format("", res.err)]

\* Mutant of try_auth: a further prompt leaves the answered prompt in place.
try_auth_stale_prompt(msg, v, credential, io) ==
    LET res == respond(msg, credential, io) IN
    IF res.outer = "Err"
    THEN [greetd_state |-> variant(v, res.current), error |-> Format("", res.err)]
    ELSE IF res.inner = "Err"
    THEN [greetd_state |-> variant(v, res.current), error |-> Format("", res.err)]
    ELSE IF res.next.variant = "Success"
    THEN [greetd_state |-> Startable(res.next.session), error |-> NoErrorText]
    ELSE [greetd_state |-> variant(v, msg), error |-> NoErrorText]

try_auth(msg, v, credential, io) ==
    LET res == respond(msg, credential, io) IN
    IF res.outer = "Err"
    THEN [greetd_state |-> variant(v, res.current), error |-> Format("", res.err)]
    ELSE IF res.inner = "Err"
    THEN [greetd_state |-> variant(v, res.current), error |-> Format("", res.err)]
    ELSE [greetd_state |-> FromCreateSessionResponse(res.next), error |-> NoErrorText]

\* ------------------------------------------------------- oneshot commands
\* The future handed to sender.oneshot_command: the helper it runs, the
\* session value moved into it and its arguments.  phase is the await it is
\* suspended at: "spawned" (nothing written yet) or "awaiting" (request
\* written, response not read).  by/after are bookkeeping: the handler that
\* spawned it and the kind of error that handler was handling.
NoTask ==
    [op |-> "none", session |-> Moved, variant |-> "", username |-> 0,
     credential |-> NoneStr, command |-> <<>>, env |-> <<>>, phase |-> "",
     by |-> "", after |-> ""]
CancelTask(session, v) ==
    [NoTask EXCEPT !.op = "cancel_session", !.session = session, !.variant = v,
                   !.phase = "spawned"]
\* Mutant of CreateTask: the stored username is not the one sent.
CreateTask_no_username(client, username) ==
    [NoTask EXCEPT !.op = "create_session", !.session = client, !.variant = "NotCreated",
                   !.username = 0, !.phase = "spawned"]
CreateTask(client, username) ==
    [NoTask EXCEPT !.op = "create_session", !.session = client, !.variant = "NotCreated",
                   !.username = username, !.phase = "spawned"]
\* Mutant of StartTask: the stored environment is not the one sent.
StartTask_no_env(session, v, command, env) ==
    [NoTask EXCEPT !.op = "start_session", !.session = session, !.variant = v,
                   !.command = command, !.env = <<>>, !.phase = "spawned"]
StartTask(session, v, command, env) ==
    [NoTask EXCEPT !.op = "start_session", !.session = session, !.variant = v,
                   !.command = command, !.env = env, !.phase = "spawned"]
\* Mutant of AuthTask: the credential given to advance is not the one sent.
AuthTask_no_credential(session, v, credential) ==
    [NoTask EXCEPT !.op = "respond", !.session = session, !.variant = v,
                   !.credential = NoneStr, !.phase = "spawned"]
AuthTask(session, v, credential) ==
    [NoTask EXCEPT !.op = "respond", !.session = session, !.variant = v,
                   !.credential = credential, !.phase = "spawned"]

\* The request the command writes.
RequestOf(t) ==
    CASE t.op = "create_session" -> CreateSession(t.username)
      [] t.op = "respond" -> PostAuthMessageResponse(t.credential)
      [] t.op = "start_session" -> StartSession(t.command, t.env)
      [] t.op = "cancel_session" -> CancelSession

\* The responses the daemon gives to a request: an auth_message answers only
\* create_session and post_auth_message_response.
ResponsesTo(op) ==
    IF op \in {"create_session", "respond"}
    THEN {Success} \cup ErrorResponses \cup AuthMessageResponses
    ELSE {Success} \cup ErrorResponses

\* The protocol operation the command runs, and the helper around it.
Operation(t, io) ==
    CASE t.op = "create_session" -> create_session(t.session, t.username, io)
      [] t.op = "respond" -> respond(t.session, t.credential, io)
      [] t.op = "start_session" -> start_session(t.session, t.command, t.env, io)
      [] t.op = "cancel_session" -> cancel_session_of(t.session, io)
Helper(t, io) ==
    CASE t.op = "create_session" -> try_create_session(t.session, t.username, io)
      [] t.op = "respond" -> try_auth(t.session, t.variant, t.credential, io)
      [] t.op = "start_session" ->
            try_start_session(t.session, t.variant, t.command, t.env, io)
      [] t.op = "cancel_session" -> try_cancel(t.session, t.variant, io)

\* CommandOutput::GreetdResponse { greetd_state, error }; task, io and res
\* remember the command that produced it, its exchange and what the protocol
\* operation returned.
NoCommandOutput ==
    [greetd_state |-> Loading(""), error |-> NoErrorText, task |-> NoTask,
     io |-> WriteFailed, res |-> IoErr(Moved, NoError)]
GreetdResponse(t, io) ==
    [greetd_state |-> Helper(t, io).greetd_state, error |-> Helper(t, io).error,
     task |-> t, io |-> io, res |-> Operation(t, io)]

\* ---------------------------------------------------------------- outputs
NotifyError(text) == [type |-> "NotifyError", error |-> text]
LockUserSelectors == [type |-> "LockUserSelectors", error |-> NoErrorText]
UnlockUserSelectors == [type |-> "UnlockUserSelectors", error |-> NoErrorText]
SessionStartedOutput == [type |-> "SessionStarted", error |-> NoErrorText]

\* Mutant of LockOutput: the selectors are never unlocked.
LockOutput_always_locks(greetd_state) == LockUserSelectors

LockOutput(greetd_state) ==
    IF greetd_state.tag = "NotCreated" THEN UnlockUserSelectors ELSE LockUserSelectors

\* --------------------------------------------------------------- handlers
\* A handler maps the model to the model after it, the outputs it sent and
\* the commands it spawned; panic says that it hit unreachable!().
Handled(model, o, spawn) == [self |-> model, out |-> o, spawn |-> spawn, panic |-> FALSE]

\* Mutant of replace: the state is left in place while its session moves on.
replace_keeps_state(model, placeholder) == model

\* mem::replace(&mut self.greetd_state, placeholder): the model once the state
\* was moved out of it.
replace(model, placeholder) == [model EXCEPT !.greetd_state = placeholder]

\* Mutant of cancel_session: NotCreated is not put back either.
cancel_session_forgets_client(model) ==
    LET greetd_state == model.greetd_state
        replaced == replace(model, Loading("Canceling session"))
    IN
    CASE greetd_state.tag = "Loading" ->
            Handled([replaced EXCEPT !.greetd_state = Loading(greetd_state.loading)],
                    <<>>, <<>>)
      [] greetd_state.tag = "NotCreated" ->
            Handled(replaced, <<>>, <<>>)
      [] greetd_state.tag = "Startable" ->
            Handled(replaced, <<>>, <<CancelTask(greetd_state.session, "Startable")>>)
      [] greetd_state.tag = "AuthQuestion" ->
            Handled(replaced, <<>>, <<CancelTask(greetd_state.session, "AuthQuestion")>>)
      [] greetd_state.tag = "AuthInformative" /\ greetd_state.sub = "NotSent" ->
            Handled(replaced, <<>>, <<CancelTask(greetd_state.session, "AuthInformative")>>)
      [] greetd_state.tag = "AuthInformative" /\ greetd_state.sub # "NotSent" ->
            Handled(replaced, <<NotifyError(PendingCancelText)>>, <<>>)
      [] greetd_state.tag = "SessionStarted" ->
            Handled(replaced, <<>>, <<>>)

\* GreetdControls::cancel_session
cancel_session(model) ==
    LET greetd_state == model.greetd_state
        replaced == replace(model, Loading("Canceling session"))
    IN
    CASE greetd_state.tag = "Loading" ->
            Handled([replaced EXCEPT !.greetd_state = Loading(greetd_state.loading)],
                    <<>>, <<>>)
      [] greetd_state.tag = "NotCreated" ->
            Handled([replaced EXCEPT !.greetd_state = NotCreated(greetd_state.session)],
                    <<>>, <<>>)
      [] greetd_state.tag = "Startable" ->
            Handled(replaced, <<>>, <<CancelTask(greetd_state.session, "Startable")>>)
      [] greetd_state.tag = "AuthQuestion" ->
            Handled(replaced, <<>>, <<CancelTask(greetd_state.session, "AuthQuestion")>>)
      [] greetd_state.tag = "AuthInformative" /\ greetd_state.sub = "NotSent" ->
            Handled(replaced, <<>>, <<CancelTask(greetd_state.session, "AuthInformative")>>)
      [] greetd_state.tag = "AuthInformative" /\ greetd_state.sub # "NotSent" ->
            Handled(replaced, <<NotifyError(PendingCancelText)>>, <<>>)
      [] greetd_state.tag = "SessionStarted" ->
            Handled(replaced, <<>>, <<>>)

\* Mutant of advance_authentication: Loading is not put back.
advance_authentication_loading_lost(model, credential) ==
    LET greetd_state == model.greetd_state
        replaced == replace(model, Loading("Authenticating"))
    IN
    CASE greetd_state.tag = "Loading" -> Handled(replaced, <<>>, <<>>)
      [] greetd_state.tag = "Startable" ->
            IF model.command.some
            THEN Handled([replaced EXCEPT !.greetd_state = Loading("Starting session")],
                         <<>>,
                         <<StartTask(greetd_state.session, "Startable", model.command.val,
                                     model.env)>>)
            ELSE Handled([replaced EXCEPT !.greetd_state = Startable(greetd_state.session)],
                         <<NotifyError(InvalidSessionText)>>, <<>>)
      [] greetd_state.tag = "NotCreated" ->
            Handled(replaced, <<>>, <<CreateTask(greetd_state.session, model.username)>>)
      [] greetd_state.tag = "AuthQuestion" ->
            Handled(replaced, <<>>,
                    <<AuthTask(greetd_state.session, "AuthQuestion", credential)>>)
      [] greetd_state.tag = "AuthInformative" /\ greetd_state.sub = "NotSent" ->
            Handled(replaced, <<>>,
                    <<AuthTask(greetd_state.session, "AuthInformative", NoneStr)>>)
      [] greetd_state.tag = "AuthInformative" /\ greetd_state.sub # "NotSent" ->
            Handled(replaced, <<NotifyError(PendingAdvanceText)>>, <<>>)
      [] greetd_state.tag = "SessionStarted" ->
            Handled(replaced, <<>>, <<>>)

\* GreetdControls::advance_authentication
advance_authentication(model, credential) ==
    LET greetd_state == model.greetd_state
        replaced == replace(model, Loading("Authenticating"))
    IN
    CASE greetd_state.tag = "Loading" ->
            Handled([replaced EXCEPT !.greetd_state = Loading(greetd_state.loading)],
                    <<>>, <<>>)
      [] greetd_state.tag = "Startable" ->
            IF model.command.some
            THEN Handled([replaced EXCEPT !.greetd_state = Loading("Starting session")],
                         <<>>,
                         <<StartTask(greetd_state.session, "Startable", model.command.val,
                                     model.env)>>)
            ELSE Handled([replaced EXCEPT !.greetd_state = Startable(greetd_state.session)],
                         <<NotifyError(InvalidSessionText)>>, <<>>)
      [] greetd_state.tag = "NotCreated" ->
            Handled(replaced, <<>>, <<CreateTask(greetd_state.session, model.username)>>)
      [] greetd_state.tag = "AuthQuestion" ->
            Handled(replaced, <<>>,
                    <<AuthTask(greetd_state.session, "AuthQuestion", credential)>>)
      [] greetd_state.tag = "AuthInformative" /\ greetd_state.sub = "NotSent" ->
            Handled(replaced, <<>>,
                    <<AuthTask(greetd_state.session, "AuthInformative", NoneStr)>>)
      [] greetd_state.tag = "AuthInformative" /\ greetd_state.sub # "NotSent" ->
            Handled(replaced, <<NotifyError(PendingAdvanceText)>>, <<>>)
      [] greetd_state.tag = "SessionStarted" ->
            Handled(replaced, <<>>, <<>>)

\* Mutant of change_user: the username is replaced in every state.
change_user_any_state(model, username) ==
    Handled([model EXCEPT !.username = username], <<>>, <<>>)

\* GreetdControls::change_user
change_user(model, username) ==
    IF model.greetd_state.tag = "NotCreated"
    THEN Handled([model EXCEPT !.username = username], <<>>, <<>>)
    ELSE [Handled(model, <<>>, <<>>) EXCEPT !.panic = TRUE]

\* GreetdControlsMsg
NoMsg == [type |-> "none", credential |-> NoneStr, username |-> 0, command |-> NoneCmd]
CancelMsg == [NoMsg EXCEPT !.type = "Cancel"]
AdvanceAuthenticationMsg(credential) ==
    [NoMsg EXCEPT !.type = "AdvanceAuthentication", !.credential = credential]
UpdateUserMsg(username) == [NoMsg EXCEPT !.type = "UpdateUser", !.username = username]
UpdateSessionMsg(command) == [NoMsg EXCEPT !.type = "UpdateSession", !.command = command]

\* Component::update: the match on the message, then the lock output (which
\* a panic in change_user never reaches).
update(model, msg) ==
    LET r == CASE msg.type = "Cancel" -> cancel_session(model)
               [] msg.type = "AdvanceAuthentication" ->
                     advance_authentication(model, msg.credential)
               [] msg.type = "UpdateUser" -> change_user(model, msg.username)
               [] msg.type = "UpdateSession" ->
                     Handled([model EXCEPT !.command = msg.command], <<>>, <<>>)
    IN IF r.panic THEN r
       ELSE [r EXCEPT !.out = Append(r.out, LockOutput(r.self.greetd_state))]

\* Mutant of update_cmd: a Startable result is stored, never started.
update_cmd_no_auto_start(model, cmd_out) ==
    LET greetd_state == cmd_out.greetd_state
        notified == IF cmd_out.error.some THEN <<NotifyError(cmd_out.error)>> ELSE <<>>
        r == CASE greetd_state.tag = "AuthInformative" /\ greetd_state.sub = "NotSent" ->
                    Handled([model EXCEPT !.greetd_state = InformativeInto(greetd_state.session)],
                            notified,
                            <<AuthTask(greetd_state.session, "AuthInformative", NoneStr)>>)
               [] greetd_state.tag = "SessionStarted" ->
                    Handled([model EXCEPT !.greetd_state = SessionStarted],
                            Append(notified, SessionStartedOutput), <<>>)
               [] OTHER ->
                    Handled([model EXCEPT !.greetd_state = greetd_state], notified, <<>>)
    IN [r EXCEPT !.out = Append(r.out, LockOutput(r.self.greetd_state))]

\* Mutant of update_cmd: Startable starts the session even with no command.
update_cmd_always_starts(model, cmd_out) ==
    LET greetd_state == cmd_out.greetd_state
        notified == IF cmd_out.error.some THEN <<NotifyError(cmd_out.error)>> ELSE <<>>
        r == CASE greetd_state.tag = "Startable" ->
                    Handled([model EXCEPT !.greetd_state = Loading("Starting session")],
                            notified,
                            <<StartTask(greetd_state.session, "Startable",
                                        IF model.command.some THEN model.command.val
                                        ELSE <<>>,
                                        model.env)>>)
               [] greetd_state.tag = "AuthInformative" /\ greetd_state.sub = "NotSent" ->
                    Handled([model EXCEPT !.greetd_state = InformativeInto(greetd_state.session)],
                            notified,
                            <<AuthTask(greetd_state.session, "AuthInformative", NoneStr)>>)
               [] greetd_state.tag = "SessionStarted" ->
                    Handled([model EXCEPT !.greetd_state = SessionStarted],
                            Append(notified, SessionStartedOutput), <<>>)
               [] OTHER ->
                    Handled([model EXCEPT !.greetd_state = greetd_state], notified, <<>>)
    IN [r EXCEPT !.out = Append(r.out, LockOutput(r.self.greetd_state))]

\* Component::update_cmd
update_cmd(model, cmd_out) ==
    LET greetd_state == cmd_out.greetd_state
        notified == IF cmd_out.error.some THEN <<NotifyError(cmd_out.error)>> ELSE <<>>
        r == CASE greetd_state.tag = "Startable" ->
                    IF model.command.some
                    THEN Handled([model EXCEPT !.greetd_state = Loading("Starting session")],
                                 notified,
                                 <<StartTask(greetd_state.session, "Startable",
                                             model.command.val, model.env)>>)
                    ELSE Handled([model EXCEPT !.greetd_state = Startable(greetd_state.session)],
                                 Append(notified, NotifyError(InvalidSessionText)), <<>>)
               [] greetd_state.tag = "AuthInformative" /\ greetd_state.sub = "NotSent" ->
                    Handled([model EXCEPT !.greetd_state = InformativeInto(greetd_state.session)],
                            notified,
                            <<AuthTask(greetd_state.session, "AuthInformative", NoneStr)>>)
               [] greetd_state.tag = "SessionStarted" ->
                    Handled([model EXCEPT !.greetd_state = SessionStarted],
                            Append(notified, SessionStartedOutput), <<>>)
               [] OTHER ->
                    Handled([model EXCEPT !.greetd_state = greetd_state], notified, <<>>)
    IN [r EXCEPT !.out = Append(r.out, LockOutput(r.self.greetd_state))]

\* ------------------------------------------------------------------- cache
\* cache.rs.  Usernames and sessions are numbered; an entry is the tuple
\* (username, session) of user_to_last_sess, first is most recent.
CacheUsers == 3
CacheSessions == 2
MaxEntries == 3
MaxLimit == 2

CacheUsernames == 1..CacheUsers
SessionIdOrCmdlines == 1..CacheSessions
Entry(username, session) == [user |-> username, session |-> session]
Entries == {Entry(u, x) : u \in CacheUsernames, x \in SessionIdOrCmdlines}

\* The lists toml::from_str can hand to load: any entries, in file order.
StoredLists == UNION {[1..n -> Entries] : n \in 0..MaxEntries}
Limits == 0..MaxLimit

\* Option<&SessionIdOrCmdline> / Option<&str>: 0 is None.
NoSession == 0
NoUser == 0

\* Cache::default()
CacheDefault == [user_to_last_sess |-> <<>>]

\* Vec::retain(|(user, _)| set.insert(user.clone())) with the HashSet `set`
RECURSIVE retain(_, _)
retain(list, set) ==
    IF list = <<>> THEN <<>>
    ELSE IF Head(list).user \in set THEN retain(Tail(list), set)
    ELSE <<Head(list)>> \o retain(Tail(list), set \cup {Head(list).user})

\* Mutant of dedup_user_to_last_sess: nothing is removed.
dedup_keeps_all(self_) == self_

\* Cache::dedup_user_to_last_sess
dedup_user_to_last_sess(self_) ==
    [self_ EXCEPT !.user_to_last_sess = retain(self_.user_to_last_sess, {})]

\* Mutant of truncate: one entry more than the limit is kept.
truncate_off_by_one(list, limit) ==
    IF Len(list) <= limit + 1 THEN list ELSE SubSeq(list, 1, limit + 1)

\* Vec::truncate
truncate(list, limit) == IF Len(list) <= limit THEN list ELSE SubSeq(list, 1, limit)

\* Mutant of set_last_login: the entry is pushed to the back.
set_last_login_appends(self_, username, session) ==
    dedup_user_to_last_sess(
        [self_ EXCEPT !.user_to_last_sess = Append(@, Entry(username, session))])

\* Cache::set_last_login
set_last_login(self_, username, session) ==
    dedup_user_to_last_sess(
        [self_ EXCEPT !.user_to_last_sess = <<Entry(username, session)>> \o @])

\* Cache::last_user
last_user(self_) ==
    IF self_.user_to_last_sess = <<>> THEN NoUser ELSE self_.user_to_last_sess[1].user

\* Cache::last_user_session: find_map gives the first match.
last_user_session(self_, username) ==
    LET list == self_.user_to_last_sess
        hits == {i \in DOMAIN list : list[i].user = username}
    IN IF hits = {} THEN NoSession
       ELSE list[CHOOSE i \in hits : \A j \in hits : i <= j].session

\* Cache::load once the file was read and parsed into `stored`.
load(stored, limit) ==
    LET cache_ == dedup_user_to_last_sess([user_to_last_sess |-> stored])
    IN [cache_ EXCEPT !.user_to_last_sess = truncate(@, limit)]

\* Cache::save: the list that is serialized and written.
save(self_, limit) ==
    LET cache_ == dedup_user_to_last_sess(self_)
    IN [cache_ EXCEPT !.user_to_last_sess = truncate(@, limit)]

\* cache_last: the most recent cache operation, its arguments, the list it
\* started from, and logins, the session of each user's most recent
\* set_last_login since the cache was last loaded or taken.
NoLogins == [u \in CacheUsernames |-> NoSession]
CacheLastInit ==
    [op |-> "init", username |-> NoUser, session |-> NoSession, limit |-> 0,
     ok |-> TRUE, pre |-> <<>>, logins |-> NoLogins]

\* ----------------------------------------------------------- action button
\* action_button.rs
ActionButtonMsgs == {"Unconfirmed", "Confirmation", "Cancel"}
ActionButtonOutput == "ActionButtonOutput"
MaxButtonQueue == 3

\* ActionButton::init
ActionButtonInit(require_confirm) == [state |-> "Normal", require_confirm |-> require_confirm]

\* Mutant of button_update: Unconfirmed acts as the confirmation does.
button_update_unconfirmed_confirms(model, msg) ==
    CASE msg = "Cancel" -> [self |-> [model EXCEPT !.state = "Normal"], out |-> <<>>]
      [] msg \in {"Unconfirmed", "Confirmation"} /\ model.state = "Normal"
           /\ model.require_confirm ->
            [self |-> [model EXCEPT !.state = "ConfirmTheAction"], out |-> <<>>]
      [] OTHER ->
            [self |-> [model EXCEPT !.state = "Normal"], out |-> <<ActionButtonOutput>>]

\* ActionButton::update: the model after the message and the outputs sent.
button_update(model, msg) ==
    CASE msg = "Cancel" -> [self |-> [model EXCEPT !.state = "Normal"], out |-> <<>>]
      [] msg \in {"Unconfirmed", "Confirmation"} /\ model.state = "Normal"
           /\ model.require_confirm ->
            [self |-> [model EXCEPT !.state = "ConfirmTheAction"], out |-> <<>>]
      [] \/ msg = "Confirmation" /\ model.state = "ConfirmTheAction" /\ model.require_confirm
         \/ msg \in {"Unconfirmed", "Confirmation"} /\ ~model.require_confirm ->
            [self |-> [model EXCEPT !.state = "Normal"], out |-> <<ActionButtonOutput>>]
      [] msg = "Unconfirmed" /\ model.state = "ConfirmTheAction" /\ model.require_confirm ->
            [self |-> model, out |-> <<>>]

\* button_last: the message update handled last, the model before it and the
\* outputs it sent.
ButtonLastInit == [msg |-> "none", pre |-> ActionButtonInit(FALSE), out |-> <<>>]

\* ------------------------------------------------------------------ state
VARIABLES
    self,       \* GreetdControls: greetd_state, username, command, env
    tasks,      \* the oneshot commands that have not finished, in spawn order
    cmdq,       \* the CommandOutput messages not yet handled by update_cmd
    out,        \* the outputs the most recent handler sent to the parent
    panicked,   \* a handler hit unreachable!(): the process is gone
    hist,       \* what went over the connection so far (see HistInit)
    last,       \* the most recent step (see LastInit)
    inq,        \* the input messages sent to the component and not yet handled
    cache,      \* the Cache in memory
    file,       \* the list stored in the cache file
    cache_last, \* the most recent cache operation (see CacheLastInit)
    button,     \* an ActionButton: state, require_confirm
    button_inq, \* the input messages sent to the button and not yet handled
    button_last \* the button's most recent update (see ButtonLastInit)

vars == <<self, tasks, cmdq, out, panicked, hist, last, inq,
          cache, file, cache_last, button, button_inq, button_last>>

\* The variables of the greetd controls, of the cache and of the button.
controls == <<self, tasks, cmdq, out, panicked, hist, last, inq>>
caching == <<cache, file, cache_last>>
buttons == <<button, button_inq, button_last>>

\* No cache was loaded and no file exists yet.
CacheIdle == cache = CacheDefault /\ file = <<>> /\ cache_last = CacheLastInit

\* A button that was created and has received nothing.
ButtonIdle ==
    /\ button = ActionButtonInit(FALSE)
    /\ button_inq = <<>>
    /\ button_last = ButtonLastInit

NoPrompt == [type |-> "None", text |-> 0]
NoModel == [greetd_state |-> Loading(""), username |-> 0, command |-> NoneCmd, env |-> <<>>]

\* hist.init: the state the component was initialized with.
\* hist.authOK: the most recent response read for a create_session or
\*   post_auth_message_response was success, and no cancel_session was
\*   answered with success since.
\* hist.prompt: the most recent auth_message read that was neither answered
\*   with success or a further auth_message nor cancelled.
\* hist.started: a start_session was answered with success.
\* hist.user: the username of the most recent create_session written.
\* hist.cancelled: a cancel_session was answered with success, and since then
\*   no UpdateUser was handled and no create_session was written.
\* hist.denied: the most recent response read was an auth_error answering the
\*   credential sent for a question; credential is the one it answered.
\* hist.emitted: how many SessionStarted outputs were sent to the parent.
NotDenied == [is |-> FALSE, credential |-> NoneStr]
HistInit ==
    [init |-> "NotCreated", authOK |-> FALSE, prompt |-> NoPrompt, started |-> FALSE,
     user |-> 0, cancelled |-> FALSE, denied |-> NotDenied, emitted |-> 0]

\* last: the step that led to this state.  step names it; msg and pre are the
\* input message and the model before a handler ran; cmd is the
\* CommandOutput update_cmd handled, or the one a finished command delivered;
\* spawned are the commands the handler spawned; task is the command that
\* wrote or read.
LastInit ==
    [step |-> "init", msg |-> NoMsg, pre |-> NoModel, cmd |-> NoCommandOutput,
     spawned |-> <<>>, task |-> NoTask]

\* GreetdControlsInit.greetd_state: main() passes NotCreated(socket); a parent
\* may also hand over a connection on which a session already exists, with
\* the prompt or the success the daemon gave last.
InitialStates ==
    {NotCreated(Client), Startable(Client)}
        \cup {AuthQuestion(AuthMessage(Client, t, 1)) : t \in {"Visible", "Secret"}}
        \cup {AuthInformativeNotSent(AuthMessage(Client, t, 1)) : t \in {"Info", "Error"}}

\* Component::init: command is Some(init.command).
Init ==
    /\ self \in {[greetd_state |-> g, username |-> u, command |-> SomeCmd(c), env |-> Env] :
                     g \in InitialStates, u \in Usernames, c \in CommandLists}
    /\ tasks = <<>>
    /\ cmdq = <<>>
    /\ out = <<>>
    /\ panicked = FALSE
    /\ hist = [HistInit EXCEPT
                  !.init = self.greetd_state.tag,
                  !.authOK = (self.greetd_state.tag = "Startable"),
                  !.prompt = IF self.greetd_state.tag \in {"AuthQuestion", "AuthInformative"}
                             THEN message(self.greetd_state.session) ELSE NoPrompt,
                  !.user = IF self.greetd_state.tag = "NotCreated" THEN 0
                           ELSE self.username]
    /\ last = LastInit
    /\ inq = <<>>
    /\ CacheIdle
    /\ ButtonIdle

\* The commands a handler spawned, marked with the handler and with the kind
\* of error it was handling.
Mark(spawn, by, after) ==
    [i \in DOMAIN spawn |-> [spawn[i] EXCEPT !.by = by, !.after = after]]

Remove(seq, i) == [j \in 1..(Len(seq) - 1) |-> IF j < i THEN seq[j] ELSE seq[j + 1]]

\* ---------------------------------------------------------------- actions
\* Component::update runs on one input message.
Handle(msg) ==
    /\ ~panicked
    /\ LET r == update(self, msg)
           spawned == Mark(r.spawn, "update", "None")
       IN /\ self' = r.self
          /\ out' = r.out
          /\ tasks' = tasks \o spawned
          /\ panicked' = r.panic
          /\ last' = [LastInit EXCEPT !.step = "update", !.msg = msg,
                                      !.pre = self, !.spawned = spawned]
          /\ hist' = IF msg.type = "UpdateUser" /\ ~r.panic
                     THEN [hist EXCEPT !.cancelled = FALSE]
                     ELSE hist
    /\ UNCHANGED <<cmdq, caching, buttons>>

\* The runtime calls update with an input message as soon as it is sent.
Update(msg) == Handle(msg) /\ UNCHANGED inq

Cancel == Update(CancelMsg)

AdvanceAuthentication == \E credential \in Credentials : Update(AdvanceAuthenticationMsg(credential))

UpdateUser == \E username \in Usernames : Update(UpdateUserMsg(username))

UpdateSession == \E command \in Commands : Update(UpdateSessionMsg(command))

\* The runtime calls update_cmd with the oldest finished command's output.
UpdateCmd ==
    /\ ~panicked
    /\ cmdq # <<>>
    /\ LET cmd_out == Head(cmdq)
           r == update_cmd(self, [greetd_state |-> cmd_out.greetd_state,
                                  error |-> cmd_out.error])
           spawned == Mark(r.spawn, "update_cmd", cmd_out.error.err.kind)
       IN /\ self' = r.self
          /\ out' = r.out
          /\ tasks' = tasks \o spawned
          /\ last' = [LastInit EXCEPT !.step = "update_cmd", !.cmd = cmd_out,
                                      !.pre = self, !.spawned = spawned]
          /\ hist' = [hist EXCEPT !.emitted =
                         @ + Cardinality({i \in DOMAIN r.out : r.out[i] = SessionStartedOutput})]
    /\ cmdq' = Tail(cmdq)
    /\ UNCHANGED <<panicked, inq, caching, buttons>>

\* A command runs to its first await: request.write_to succeeds.
WriteRequest ==
    /\ ~panicked
    /\ \E i \in DOMAIN tasks :
          /\ tasks[i].phase = "spawned"
          /\ tasks' = [tasks EXCEPT ![i].phase = "awaiting"]
          /\ hist' = IF tasks[i].op = "create_session"
                     THEN [hist EXCEPT !.user = RequestOf(tasks[i]).username,
                                       !.cancelled = FALSE]
                     ELSE hist
          /\ last' = [LastInit EXCEPT !.step = "write", !.task = tasks[i]]
    /\ UNCHANGED <<self, cmdq, out, panicked, inq, caching, buttons>>

\* request.write_to fails: the command finishes with the transport error.
WriteFails ==
    /\ ~panicked
    /\ \E i \in DOMAIN tasks :
          /\ tasks[i].phase = "spawned"
          /\ tasks' = Remove(tasks, i)
          /\ cmdq' = Append(cmdq, GreetdResponse(tasks[i], WriteFailed))
          /\ last' = [LastInit EXCEPT !.step = "write_failed", !.task = tasks[i],
                                      !.cmd = GreetdResponse(tasks[i], WriteFailed)]
    /\ UNCHANGED <<self, out, panicked, hist, inq, caching, buttons>>

\* What reading `response` as the answer to the command's request tells.
Heard(h, op, response) ==
    CASE op \in {"create_session", "respond"} /\ response.type = "success" ->
            [h EXCEPT !.authOK = TRUE, !.prompt = NoPrompt]
      [] op \in {"create_session", "respond"} /\ response.type = "auth_message" ->
            [h EXCEPT !.authOK = FALSE,
                      !.prompt = [type |-> response.auth_message_type,
                                  text |-> response.auth_message]]
      [] op \in {"create_session", "respond"} /\ response.type = "error" ->
            [h EXCEPT !.authOK = FALSE]
      [] op = "cancel_session" /\ response.type = "success" ->
            [h EXCEPT !.authOK = FALSE, !.prompt = NoPrompt, !.cancelled = TRUE]
      [] op = "start_session" /\ response.type = "success" ->
            [h EXCEPT !.started = TRUE]
      [] OTHER -> h

\* Heard, and whether the response denied the credential of a question.
HeardBy(h, t, response) ==
    [Heard(h, t.op, response) EXCEPT
        !.denied = IF /\ t.op = "respond"
                      /\ t.variant = "AuthQuestion"
                      /\ response = ErrorResponse("AuthError", response.description)
                   THEN [is |-> TRUE, credential |-> t.credential]
                   ELSE NotDenied]

\* Mutant of ReadResponse: the command reads on after its response.
ReadResponse_keeps_task ==
    /\ ~panicked
    /\ \E i \in DOMAIN tasks :
          /\ tasks[i].phase = "awaiting"
          /\ \E response \in ResponsesTo(tasks[i].op) :
                /\ cmdq' = Append(cmdq, GreetdResponse(tasks[i], Answered(response)))
                /\ hist' = HeardBy(hist, tasks[i], response)
                /\ last' = [LastInit EXCEPT
                               !.step = "read", !.task = tasks[i],
                               !.cmd = GreetdResponse(tasks[i], Answered(response))]
          /\ tasks' = tasks
    /\ UNCHANGED <<self, out, panicked, inq, caching, buttons>>

\* Response::read_from returns the daemon's answer: the command finishes.
ReadResponse ==
    /\ ~panicked
    /\ \E i \in DOMAIN tasks :
          /\ tasks[i].phase = "awaiting"
          /\ \E response \in ResponsesTo(tasks[i].op) :
                /\ cmdq' = Append(cmdq, GreetdResponse(tasks[i], Answered(response)))
                /\ hist' = HeardBy(hist, tasks[i], response)
                /\ last' = [LastInit EXCEPT
                               !.step = "read", !.task = tasks[i],
                               !.cmd = GreetdResponse(tasks[i], Answered(response))]
          /\ tasks' = Remove(tasks, i)
    /\ UNCHANGED <<self, out, panicked, inq, caching, buttons>>

\* Response::read_from fails: the command finishes with the transport error.
ReadFails ==
    /\ ~panicked
    /\ \E i \in DOMAIN tasks :
          /\ tasks[i].phase = "awaiting"
          /\ tasks' = Remove(tasks, i)
          /\ cmdq' = Append(cmdq, GreetdResponse(tasks[i], ReadFailed))
          /\ last' = [LastInit EXCEPT !.step = "read_failed", !.task = tasks[i],
                                      !.cmd = GreetdResponse(tasks[i], ReadFailed)]
    /\ UNCHANGED <<self, out, panicked, hist, inq, caching, buttons>>

Next ==
    \/ Cancel
    \/ AdvanceAuthentication
    \/ UpdateUser
    \/ UpdateSession
    \/ UpdateCmd
    \/ WriteRequest
    \/ WriteFails
    \/ ReadResponse
    \/ ReadFails

Spec == Init /\ [][Next]_vars

\* ------------------------------------------------------ queued input messages
\* The component's input channel: messages wait in it, in the order they were
\* sent, while command outputs arrive on a channel of their own.
MaxQueue == 2

\* The latest lock output the parent received is UnlockUserSelectors.
Unlocked == out # <<>> /\ out[Len(out)] = UnlockUserSelectors

\* The view shows the button that sends Cancel / AdvanceAuthentication.
CancelButton ==
    \/ self.greetd_state.tag \in {"Startable", "AuthQuestion"}
    \/ self.greetd_state.tag = "AuthInformative" /\ self.greetd_state.sub = "NotSent"
LoginButton == CancelButton \/ self.greetd_state.tag = "NotCreated"

\* sender.input(msg) / controller.emit(msg)
Send(msg) ==
    /\ ~panicked
    /\ Len(inq) < MaxQueue
    /\ inq' = Append(inq, msg)
    /\ UNCHANGED <<self, tasks, cmdq, out, panicked, hist, last, caching, buttons>>

SendCancel == CancelButton /\ Send(CancelMsg)

SendAdvanceAuthentication ==
    LoginButton /\ \E credential \in Credentials : Send(AdvanceAuthenticationMsg(credential))

\* The parent obeys the lock: it sends UpdateUser only while unlocked.
SendUpdateUser == Unlocked /\ \E username \in Usernames : Send(UpdateUserMsg(username))

SendUpdateSession == \E command \in Commands : Send(UpdateSessionMsg(command))

\* The runtime calls update with the oldest queued input message.
Deliver ==
    /\ inq # <<>>
    /\ Handle(Head(inq))
    /\ inq' = Tail(inq)

\* main(): the component starts in NotCreated.
QueueInit == Init /\ self.greetd_state.tag = "NotCreated"

QueueNext ==
    \/ SendCancel
    \/ SendAdvanceAuthentication
    \/ SendUpdateUser
    \/ SendUpdateSession
    \/ Deliver
    \/ UpdateCmd
    \/ WriteRequest
    \/ WriteFails
    \/ ReadResponse
    \/ ReadFails

QueueSpec == QueueInit /\ [][QueueNext]_vars

\* ------------------------------------------------------ a caller that stops
\* The caller sends at most one input message and then nothing; the runtime
\* delivers it and every command result, the commands run, and the daemon
\* answers every request it is sent (no transport failure).
InputMsgs ==
    {CancelMsg}
        \cup {AdvanceAuthenticationMsg(credential) : credential \in Credentials}
        \cup {UpdateUserMsg(username) : username \in Usernames}
        \cup {UpdateSessionMsg(command) : command \in Commands}

LiveInit ==
    /\ self \in {[greetd_state |-> g, username |-> u, command |-> SomeCmd(c), env |-> Env] :
                     g \in InitialStates, u \in Usernames, c \in CommandLists}
    /\ tasks = <<>>
    /\ cmdq = <<>>
    /\ out = <<>>
    /\ panicked = FALSE
    /\ hist = [HistInit EXCEPT
                  !.init = self.greetd_state.tag,
                  !.authOK = (self.greetd_state.tag = "Startable"),
                  !.prompt = IF self.greetd_state.tag \in {"AuthQuestion", "AuthInformative"}
                             THEN message(self.greetd_state.session) ELSE NoPrompt,
                  !.user = IF self.greetd_state.tag = "NotCreated" THEN 0
                           ELSE self.username]
    /\ last = LastInit
    /\ inq \in {<<>>} \cup {<<msg>> : msg \in InputMsgs}
    /\ CacheIdle
    /\ ButtonIdle

LiveNext ==
    \/ Deliver
    \/ UpdateCmd
    \/ WriteRequest
    \/ ReadResponse

\* The runtime handles every message it holds, a spawned command runs to its
\* write, and the daemon answers every request.
LiveSpec ==
    /\ LiveInit
    /\ [][LiveNext]_vars
    /\ WF_vars(Deliver)
    /\ WF_vars(UpdateCmd)
    /\ WF_vars(WriteRequest)
    /\ WF_vars(ReadResponse)

\* ------------------------------------------------------------ cache actions
\* The controls as created by main(), receiving nothing.
ControlsIdle ==
    /\ self = [greetd_state |-> NotCreated(Client), username |-> 1,
               command |-> SomeCmd(<<"sway">>), env |-> Env]
    /\ tasks = <<>>
    /\ cmdq = <<>>
    /\ out = <<>>
    /\ panicked = FALSE
    /\ hist = HistInit
    /\ last = LastInit
    /\ inq = <<>>

\* main() calls Cache::load(path, limit): the file is read and parsed, or
\* reading or parsing fails and main starts without a cache.
Load ==
    \E limit \in Limits, ok \in BOOLEAN :
        /\ cache' = IF ok THEN load(file, limit) ELSE CacheDefault
        /\ cache_last' = [CacheLastInit EXCEPT !.op = "load", !.limit = limit, !.ok = ok]
        /\ UNCHANGED <<file, controls, buttons>>

\* AuthUi, on SessionStarted: self.cache.set_last_login(username, session)
SetLastLogin ==
    \E username \in CacheUsernames, session \in SessionIdOrCmdlines :
        /\ cache' = set_last_login(cache, username, session)
        /\ cache_last' = [cache_last EXCEPT
                             !.op = "set_last_login", !.username = username,
                             !.session = session, !.ok = TRUE,
                             !.pre = cache.user_to_last_sess,
                             !.logins = [@ EXCEPT ![username] = session]]
        /\ UNCHANGED <<file, controls, buttons>>

\* AuthUi, on SessionStarted: take(&mut self.cache).save(path, limit); the
\* write succeeds or fails.
Save ==
    \E limit \in Limits, ok \in BOOLEAN :
        /\ file' = IF ok THEN save(cache, limit).user_to_last_sess ELSE file
        /\ cache' = CacheDefault
        /\ cache_last' = [CacheLastInit EXCEPT !.op = "save", !.limit = limit, !.ok = ok,
                                               !.pre = cache.user_to_last_sess]
        /\ UNCHANGED <<controls, buttons>>

CacheInit ==
    /\ ControlsIdle
    /\ ButtonIdle
    /\ cache = CacheDefault
    /\ file \in StoredLists
    /\ cache_last = CacheLastInit

CacheNext == Load \/ SetLastLogin \/ Save

CacheSpec == CacheInit /\ [][CacheNext]_vars

\* ----------------------------------------------------------- button actions
\* A click, or the parent, sends the button a message.
ButtonSend ==
    \E msg \in ActionButtonMsgs :
        /\ Len(button_inq) < MaxButtonQueue
        /\ button_inq' = Append(button_inq, msg)
        /\ UNCHANGED <<button, button_last, controls, caching>>

\* The runtime calls ActionButton::update with the oldest queued message.
ButtonUpdate ==
    /\ button_inq # <<>>
    /\ LET r == button_update(button, Head(button_inq))
       IN /\ button' = r.self
          /\ button_last' = [msg |-> Head(button_inq), pre |-> button, out |-> r.out]
    /\ button_inq' = Tail(button_inq)
    /\ UNCHANGED <<controls, caching>>

ButtonInit ==
    /\ ControlsIdle
    /\ CacheIdle
    /\ button \in {ActionButtonInit(require_confirm) : require_confirm \in BOOLEAN}
    /\ button_inq = <<>>
    /\ button_last = ButtonLastInit

ButtonNext == ButtonSend \/ ButtonUpdate

ButtonSpec == ButtonInit /\ [][ButtonNext]_vars

\* ================================================================ properties
Holds(greetd_state) == greetd_state.session.rw = "conn"

\* The values that own the connection: the controller's state, the commands
\* that have not finished, and the states finished commands are handing back.
Holders ==
    (IF Holds(self.greetd_state) THEN 1 ELSE 0)
        + Cardinality({i \in DOMAIN tasks : tasks[i].session.rw = "conn"})
        + Cardinality({i \in DOMAIN cmdq : Holds(cmdq[i].greetd_state)})

Awaiting == Cardinality({i \in DOMAIN tasks : tasks[i].phase = "awaiting"})

Outputs == {out[i] : i \in DOMAIN out}

DaemonError(io) == io.read /\ io.response.type = "error"
TransportFailure(io) == ~io.write \/ ~io.read

\* C1: in a run that starts in NotCreated, a start_session command exists,
\* and its request is written, only while the most recent response read for
\* create_session / post_auth_message_response is success and no
\* cancel_session was answered with success since.
C1_StartOnlyAfterAuth ==
    hist.init = "NotCreated" =>
        /\ \A i \in DOMAIN tasks : tasks[i].op = "start_session" => hist.authOK
        /\ (last.step \in {"write", "write_failed"} /\ last.task.op = "start_session")
              => hist.authOK

C1_Witness ==
    /\ hist.init = "NotCreated"
    /\ last.step = "write"
    /\ last.task.op = "start_session"
    /\ hist.authOK

\* C2: in a run that starts in NotCreated, a post_auth_message_response is
\* written only by a command that carries the prompt of the most recent
\* auth_message read, which was not answered with success and not cancelled.
C2_RespondOnlyToIssuedPrompt ==
    hist.init = "NotCreated" =>
        /\ \A i \in DOMAIN tasks :
              tasks[i].op = "respond" =>
                  /\ hist.prompt # NoPrompt
                  /\ message(tasks[i].session) = hist.prompt
                  /\ ~hist.authOK
        /\ (last.step \in {"write", "write_failed"} /\ last.task.op = "respond")
              => /\ hist.prompt # NoPrompt
                 /\ message(last.task.session) = hist.prompt
                 /\ ~hist.authOK

C2_Witness ==
    /\ hist.init = "NotCreated"
    /\ last.step = "write"
    /\ last.task.op = "respond"
    /\ last.task.by = "update"
    /\ last.task.credential.some
    /\ message(last.task.session) = hist.prompt

\* C3: at most one command is awaiting a response, at most one command is
\* unfinished or undelivered, and until a start_session is answered with
\* success exactly one value owns the connection: the controller's state or
\* the one command in flight (its result included), never both, never neither.
C3_SingleOwner ==
    /\ Awaiting <= 1
    /\ Len(tasks) + Len(cmdq) <= 1
    /\ ~hist.started => Holders = 1
    /\ ~hist.started => (Holds(self.greetd_state) <=> (tasks = <<>> /\ cmdq = <<>>))

\* An input was handled while the one request was awaiting its response.
C3_Witness ==
    /\ Awaiting = 1
    /\ last.step = "update"
    /\ last.msg.type \in {"Cancel", "AdvanceAuthentication", "UpdateSession"}
    /\ last.spawned = <<>>
    /\ ~Holds(self.greetd_state)
    /\ Holders = 1

\* The outputs of finished commands: those waiting for update_cmd and the
\* one the last step handled or delivered.
Delivered == {cmdq[i] : i \in DOMAIN cmdq} \cup {last.cmd}

\* C4: a protocol operation that reads an error response returns
\* Ok(Err((current, error))): current is the very state it was invoked on
\* (hence of the same category, with the same prompt) and the error's kind is
\* that of error_type (error -> Error, auth_error -> Auth), with the
\* daemon's description.
C4_ErrorReturnsCurrentState ==
    \A c \in Delivered :
        DaemonError(c.io) =>
            /\ c.res.outer = "Ok"
            /\ c.res.inner = "Err"
            /\ c.res.current = c.task.session
            /\ c.res.err.kind =
                  (IF c.io.response.error_type = "Error" THEN "Error" ELSE "Auth")
            /\ c.res.err.desc = c.io.response.description

\* A cancel_session invoked on an informative prompt was answered auth_error.
C4_Witness ==
    \E c \in Delivered :
        /\ c.task.op = "cancel_session"
        /\ c.task.session.type = "Info"
        /\ c.io.read
        /\ c.io.response.type = "error"
        /\ c.io.response.error_type = "AuthError"
        /\ c.res.err.kind = "Auth"

\* C5 (as claimed): after update_cmd handled a daemon error answering a
\* request issued by advance, the controller has notified the error, holds
\* the state the operation was invoked on, and nothing is in flight.
C5_ErrorLeavesControllerIdle ==
    (/\ last.step = "update_cmd"
     /\ DaemonError(last.cmd.io)
     /\ last.cmd.task.by = "update"
     /\ last.cmd.task.op \in {"create_session", "respond", "start_session"})
        => /\ NotifyError(last.cmd.error) \in Outputs
           /\ self.greetd_state = variant(last.cmd.task.variant, last.cmd.task.session)
           /\ tasks = <<>>
           /\ cmdq = <<>>

\* C6 (as claimed): a transport failure leaves no state that owns the
\* connection, neither in the operation's result nor in the controller.
C6_TransportFailureDropsState ==
    /\ \A c \in Delivered :
          TransportFailure(c.io) /\ c.task.op # "none" =>
              /\ c.res.current.rw # "conn"
              /\ ~Holds(c.greetd_state)
    /\ (last.step = "update_cmd" /\ TransportFailure(last.cmd.io)) => Holders = 0

\* C6 (amended): a transport failure returns Err((current, IO error)) where
\* current is the very state the operation was invoked on; the helper hands
\* that state back with the error text, and after update_cmd handled it the
\* connection is still owned, by the controller's state or by the command
\* update_cmd spawned from that state.
C6_TransportFailureReturnsState ==
    /\ \A c \in Delivered :
          TransportFailure(c.io) /\ c.task.op # "none" =>
              /\ c.res.outer = "Err"
              /\ c.res.err = IoError
              /\ c.res.current = c.task.session
              /\ c.greetd_state = variant(c.task.variant, c.task.session)
              /\ c.error.some
              /\ c.error.err = IoError
    /\ (last.step = "update_cmd" /\ TransportFailure(last.cmd.io)) =>
          /\ NotifyError(last.cmd.error) \in Outputs
          /\ Holders = 1
          /\ \/ self.greetd_state = last.cmd.greetd_state
             \/ /\ Len(last.spawned) = 1
                /\ last.spawned[1].session = last.cmd.task.session

\* The read of a response to post_auth_message_response failed and
\* update_cmd gave the question back to the controller.
C6_Witness ==
    /\ last.step = "update_cmd"
    /\ last.cmd.task.op = "respond"
    /\ last.cmd.io = ReadFailed
    /\ self.greetd_state = AuthQuestion(last.cmd.task.session)
    /\ Holds(self.greetd_state)

\* C7 (as claimed): update_cmd spawns no command when it handles a transport
\* failure, and no request is written by a command that update_cmd spawned
\* while handling one: a request after a transport failure needs an input.
C7_NoRetryAfterTransportFailure ==
    /\ (last.step = "update_cmd" /\ TransportFailure(last.cmd.io)) => last.spawned = <<>>
    /\ last.step \in {"write", "write_failed"} =>
          ~(last.task.by = "update_cmd" /\ last.task.after = "IO")

\* C8: start_session on Startable: a success response gives Ok(Ok(client))
\* and the helper SessionStarted without error; an error response gives
\* Ok(Err((the same Startable, error))) and the helper Startable with the
\* error; whatever the exchange, the helper never gives NotCreated.
C8_StartSessionOutcome ==
    \A c \in Delivered :
        c.task.op = "start_session" =>
            /\ c.greetd_state.tag # "NotCreated"
            /\ c.io = Answered(Success) =>
                  /\ c.res = OkOk([variant |-> "Client", session |-> c.task.session])
                  /\ c.greetd_state = SessionStarted
                  /\ ~c.error.some
            /\ DaemonError(c.io) =>
                  /\ c.res = ReqErr(c.task.session,
                                    RequestError(c.io.response.error_type,
                                                 c.io.response.description))
                  /\ c.greetd_state = Startable(c.task.session)
                  /\ c.error = Format("", c.res.err)

C8_Witness ==
    \E c \in Delivered :
        /\ c.task.op = "start_session"
        /\ DaemonError(c.io)
        /\ c.greetd_state = Startable(Client)
        /\ c.error.some

\* C9: after update_cmd handled a successful cancel_session, the controller
\* is NotCreated with the connection, nothing is in flight, and username,
\* command and env are what they were; the username is still the one of the
\* cancelled session.  While no UpdateUser intervenes, the next advance
\* handled in that NotCreated state spawns create_session on that connection
\* with that same username.
C9_CancelSuccessResets ==
    /\ (/\ last.step = "update_cmd"
        /\ last.cmd.task.op = "cancel_session"
        /\ last.cmd.io = Answered(Success))
          => /\ self = [last.pre EXCEPT !.greetd_state = NotCreated(Client)]
             /\ self.username = hist.user
             /\ last.spawned = <<>>
             /\ tasks = <<>>
    /\ (/\ last.step = "update"
        /\ last.msg.type = "AdvanceAuthentication"
        /\ last.pre.greetd_state.tag = "NotCreated"
        /\ hist.cancelled)
          => /\ Len(last.spawned) = 1
             /\ last.spawned[1].op = "create_session"
             /\ last.spawned[1].session = Client
             /\ last.spawned[1].username = hist.user
             /\ RequestOf(last.spawned[1]) = CreateSession(hist.user)

\* The advance that follows a successful cancel of an informative prompt.
C9_Witness ==
    /\ last.step = "update"
    /\ last.msg.type = "AdvanceAuthentication"
    /\ hist.cancelled
    /\ hist.init = "AuthInformative"
    /\ Len(tasks) = 1
    /\ tasks[1].op = "create_session"
    /\ tasks[1].username = hist.user

\* C10: a Cancel handled in NotCreated does not panic, spawns no command,
\* leaves the model as it was (NotCreated, owning the connection) and only
\* reports UnlockUserSelectors.
C10_CancelInNotCreatedIsNoop ==
    (/\ last.step = "update"
     /\ last.msg.type = "Cancel"
     /\ last.pre.greetd_state.tag = "NotCreated")
        => /\ ~panicked
           /\ last.spawned = <<>>
           /\ tasks = <<>>
           /\ self = last.pre
           /\ self.greetd_state = NotCreated(Client)
           /\ out = <<UnlockUserSelectors>>

\* A second Cancel right after a first one succeeded.
C10_Witness ==
    /\ last.step = "update"
    /\ last.msg.type = "Cancel"
    /\ last.pre.greetd_state.tag = "NotCreated"
    /\ hist.cancelled
    /\ self.greetd_state = NotCreated(Client)

\* C11 (as claimed): after update_cmd handled an error response to
\* cancel_session, the error was notified, the controller holds the state the
\* cancel was invoked on (same category, same prompt) and no command was
\* spawned as a consequence.
C11_CancelErrorRetainsState ==
    (/\ last.step = "update_cmd"
     /\ last.cmd.task.op = "cancel_session"
     /\ DaemonError(last.cmd.io))
        => /\ NotifyError(last.cmd.error) \in Outputs
           /\ self.greetd_state = variant(last.cmd.task.variant, last.cmd.task.session)
           /\ last.spawned = <<>>

\* C12: cancel_session invoked on a question or an informative message that
\* fails, by an error response or by a transport failure, returns the very
\* message it was invoked on: same kind, same prompt text; the helper hands
\* back the state of the same category around it.
C12_FailedCancelKeepsPrompt ==
    \A c \in Delivered :
        (/\ c.task.op = "cancel_session"
         /\ c.task.variant \in {"AuthQuestion", "AuthInformative"}
         /\ (DaemonError(c.io) \/ TransportFailure(c.io)))
            => /\ c.res.inner # "Ok"
               /\ c.res.current.rw = "conn"
               /\ c.res.current.type = c.task.session.type
               /\ c.res.current.message = c.task.session.message
               /\ message(c.res.current) = message(c.task.session)
               /\ c.greetd_state = variant(c.task.variant, c.task.session)
               /\ c.greetd_state.tag = c.task.variant

\* The read of the answer to a cancel_session invoked on a secret question
\* failed.
C12_Witness ==
    \E c \in Delivered :
        /\ c.task.op = "cancel_session"
        /\ c.task.session.type = "Secret"
        /\ c.io = ReadFailed
        /\ c.greetd_state = AuthQuestion(c.task.session)

\* C13 (as claimed): a Cancel handled in NotCreated, Startable, AuthQuestion
\* or AuthInformative (whether or not the message was acknowledged yet) is a
\* no-op in NotCreated and otherwise spawns cancel_session and reports no
\* error.
C13_CancelAlwaysAccepted ==
    (/\ last.step = "update"
     /\ last.msg.type = "Cancel"
     /\ last.pre.greetd_state.tag \in
            {"NotCreated", "Startable", "AuthQuestion", "AuthInformative"})
        => IF last.pre.greetd_state.tag = "NotCreated"
           THEN last.spawned = <<>> /\ self = last.pre
           ELSE /\ Len(last.spawned) = 1
                /\ last.spawned[1].op = "cancel_session"
                /\ NotifyError(PendingCancelText) \notin Outputs

\* C14: when update_cmd handles an operation result that is Startable while
\* a command is stored, that same step spawns start_session on the result's
\* connection with the stored command and environment, with no input message,
\* and the controller shows Loading("Starting session").
C14_AutoStart ==
    (/\ last.step = "update_cmd"
     /\ last.cmd.greetd_state.tag = "Startable"
     /\ last.pre.command.some)
        => /\ Len(last.spawned) = 1
           /\ last.spawned[1].op = "start_session"
           /\ last.spawned[1].session = last.cmd.greetd_state.session
           /\ last.spawned[1].by = "update_cmd"
           /\ RequestOf(last.spawned[1]) =
                  StartSession(last.pre.command.val, last.pre.env)
           /\ self.greetd_state = Loading("Starting session")
           /\ self.command = last.pre.command

\* The acknowledgement of a credential was answered with success and
\* update_cmd spawned start_session with the stored command.
C14_Witness ==
    /\ last.step = "update_cmd"
    /\ last.cmd.task.op = "respond"
    /\ last.cmd.io = Answered(Success)
    /\ self.command = SomeCmd(<<"sway">>)
    /\ Len(tasks) = 1
    /\ tasks[1].op = "start_session"
    /\ tasks[1].command = <<"sway">>

\* C15: with no command stored, an advance handled in Startable and an
\* operation result that is Startable both notify the invalid-session error,
\* spawn no command, and leave the controller in Startable owning the
\* connection, with nothing in flight.
C15_NoCommandNoStart ==
    /\ (/\ last.step = "update"
        /\ last.msg.type = "AdvanceAuthentication"
        /\ last.pre.greetd_state.tag = "Startable"
        /\ ~last.pre.command.some)
          => /\ NotifyError(InvalidSessionText) \in Outputs
             /\ last.spawned = <<>>
             /\ tasks = <<>>
             /\ self = last.pre
             /\ Holds(self.greetd_state)
    /\ (/\ last.step = "update_cmd"
        /\ last.cmd.greetd_state.tag = "Startable"
        /\ ~last.pre.command.some)
          => /\ NotifyError(InvalidSessionText) \in Outputs
             /\ last.spawned = <<>>
             /\ tasks = <<>>
             /\ self.greetd_state = Startable(last.cmd.greetd_state.session)
             /\ Holds(self.greetd_state)

\* create_session was answered with success while no command was stored.
C15_Witness ==
    /\ last.step = "update_cmd"
    /\ last.cmd.task.op = "create_session"
    /\ last.cmd.io = Answered(Success)
    /\ ~self.command.some
    /\ self.greetd_state = Startable(Client)
    /\ NotifyError(InvalidSessionText) \in Outputs

\* C16 (as claimed): with the empty command list stored, an advance handled
\* in Startable notifies a local error, spawns no command and leaves the
\* controller in Startable.
C16_EmptyCommandNoStart ==
    (/\ last.step = "update"
     /\ last.msg.type = "AdvanceAuthentication"
     /\ last.pre.greetd_state.tag = "Startable"
     /\ last.pre.command = SomeCmd(<<>>))
        => /\ NotifyError(InvalidSessionText) \in Outputs
           /\ last.spawned = <<>>
           /\ self.greetd_state.tag = "Startable"

\* C17 (as claimed): after update_cmd handled an info auth_message answering
\* create_session the controller is AuthInformative with that message and no
\* acknowledgement was sent yet (it waits for advance); after update_cmd
\* handled the success answering the acknowledgement the controller is
\* Startable.
C17_AckSentOnAdvance ==
    /\ (/\ last.step = "update_cmd"
        /\ last.cmd.task.op = "create_session"
        /\ last.cmd.io.read
        /\ last.cmd.io.response.type = "auth_message"
        /\ last.cmd.io.response.auth_message_type = "Info")
          => /\ self.greetd_state.tag = "AuthInformative"
             /\ self.greetd_state.prompt = last.cmd.io.response.auth_message
             /\ last.spawned = <<>>
    /\ (/\ last.step = "update_cmd"
        /\ last.cmd.task.op = "respond"
        /\ last.cmd.task.variant = "AuthInformative"
        /\ last.cmd.io = Answered(Success))
          => self.greetd_state = Startable(Client)

\* C17 (amended): after update_cmd handled an info auth_message answering
\* create_session the controller is AuthInformative(WaitingForInfo) with that
\* message's text, and that same step, with no input message, spawned the
\* post_auth_message_response with response null on the message's session.
\* The success answering that acknowledgement gives Startable as the
\* operation's result; update_cmd keeps it when no command is stored and
\* otherwise spawns start_session from it.
C17_AckSentByController ==
    /\ (/\ last.step = "update_cmd"
        /\ last.cmd.task.op = "create_session"
        /\ last.cmd.io.read
        /\ last.cmd.io.response.type = "auth_message"
        /\ last.cmd.io.response.auth_message_type = "Info")
          => /\ self.greetd_state = WaitingForInfo(last.cmd.io.response.auth_message)
             /\ Len(last.spawned) = 1
             /\ last.spawned[1].op = "respond"
             /\ last.spawned[1].by = "update_cmd"
             /\ last.spawned[1].session =
                    AuthMessage(Client, "Info", last.cmd.io.response.auth_message)
             /\ RequestOf(last.spawned[1]) = PostAuthMessageResponse(NoneStr)
    /\ (/\ last.step = "update_cmd"
        /\ last.cmd.task.op = "respond"
        /\ last.cmd.task.variant = "AuthInformative"
        /\ last.cmd.io = Answered(Success))
          => /\ last.cmd.greetd_state = Startable(Client)
             /\ ~last.cmd.error.some
             /\ IF last.pre.command.some
                THEN /\ self.greetd_state = Loading("Starting session")
                     /\ Len(last.spawned) = 1
                     /\ last.spawned[1].op = "start_session"
                ELSE /\ self.greetd_state = Startable(Client)
                     /\ last.spawned = <<>>

\* In a run from NotCreated, the acknowledgement update_cmd sent for an info
\* message was answered with success and update_cmd handled the result.
C17_Witness ==
    /\ hist.init = "NotCreated"
    /\ last.step = "update_cmd"
    /\ last.cmd.task.op = "respond"
    /\ last.cmd.task.by = "update_cmd"
    /\ last.cmd.task.session.type = "Info"
    /\ last.cmd.io = Answered(Success)
    /\ last.pre.greetd_state = WaitingForInfo(last.cmd.task.session.message)

\* C18: after update_cmd handled an auth_error answering the credential of a
\* question, the error was notified and the controller is AuthQuestion with
\* the very message the credential was sent for (same text, same kind), with
\* nothing in flight; an advance handled in that AuthQuestion spawns a
\* post_auth_message_response on that message carrying the credential given
\* to that advance.
C18_AuthFailureThenRetry ==
    /\ (/\ last.step = "update_cmd"
        /\ last.cmd.task.op = "respond"
        /\ last.cmd.task.variant = "AuthQuestion"
        /\ DaemonError(last.cmd.io)
        /\ last.cmd.io.response.error_type = "AuthError")
          => /\ NotifyError(last.cmd.error) \in Outputs
             /\ self.greetd_state = AuthQuestion(last.cmd.task.session)
             /\ message(self.greetd_state.session) = hist.prompt
             /\ last.spawned = <<>>
             /\ tasks = <<>>
    /\ (/\ last.step = "update"
        /\ last.msg.type = "AdvanceAuthentication"
        /\ last.pre.greetd_state.tag = "AuthQuestion"
        /\ hist.denied.is)
          => /\ Len(last.spawned) = 1
             /\ last.spawned[1].op = "respond"
             /\ last.spawned[1].session = last.pre.greetd_state.session
             /\ message(last.spawned[1].session) = hist.prompt
             /\ RequestOf(last.spawned[1]) = PostAuthMessageResponse(last.msg.credential)

\* Credential 1 was denied and the next advance sends credential 2.
C18_Witness ==
    /\ last.step = "update"
    /\ last.msg = AdvanceAuthenticationMsg(SomeStr(2))
    /\ hist.denied = [is |-> TRUE, credential |-> SomeStr(1)]
    /\ Len(tasks) = 1
    /\ tasks[1].op = "respond"
    /\ tasks[1].credential = SomeStr(2)

C20_UpdateUserSafeWhenUnlocked ==
    /\ ~panicked
    /\ (last.step = "update" /\ last.msg.type = "UpdateUser")
          => last.pre.greetd_state.tag = "NotCreated"

\* C21 (as claimed): an advance, a cancel or an UpdateSession handled in
\* SessionStarted leaves the controller in SessionStarted.
C21_SessionStartedIsFinal ==
    (/\ last.step = "update"
     /\ last.msg.type \in {"AdvanceAuthentication", "Cancel", "UpdateSession"}
     /\ last.pre.greetd_state = SessionStarted)
        => self.greetd_state = SessionStarted

\* C22: an advance or a cancel handled in Loading does not panic, spawns no
\* command, reports only the lock output and leaves the whole model as it
\* was (Loading with the same message): nothing of the input is kept that a
\* later step could act on.
C22_LoadingDropsInput ==
    (/\ last.step = "update"
     /\ last.msg.type \in {"AdvanceAuthentication", "Cancel"}
     /\ last.pre.greetd_state.tag = "Loading")
        => /\ ~panicked
           /\ last.spawned = <<>>
           /\ self = last.pre
           /\ self.greetd_state = Loading(last.pre.greetd_state.loading)
           /\ out = <<LockUserSelectors>>

\* An advance with a credential was handled while start_session was in
\* flight.
C22_Witness ==
    /\ last.step = "update"
    /\ last.msg = AdvanceAuthenticationMsg(SomeStr(1))
    /\ self.greetd_state = Loading("Starting session")
    /\ Len(tasks) = 1
    /\ tasks[1].op = "start_session"
    /\ tasks[1].phase = "awaiting"

\* The session values of type AuthMessage: in the controller's state, in the
\* commands and in the states finished commands hand back.
AuthMessages ==
    {s \in {self.greetd_state.session}
             \cup {tasks[i].session : i \in DOMAIN tasks}
             \cup {cmdq[i].greetd_state.session : i \in DOMAIN cmdq} :
        s.rw = "conn" /\ s.type # "None"}

\* C23: every question or informative message that exists carries the text
\* and kind of the most recent auth_message read on the connection, a state
\* that holds one is AuthQuestion for visible/secret and AuthInformative for
\* info/error, and an informative message on display while no result waits
\* to be handled shows that same text and kind.
C23_PromptIsLatest ==
    /\ \A s \in AuthMessages : hist.prompt # NoPrompt /\ message(s) = hist.prompt
    /\ \A g \in {self.greetd_state} \cup {cmdq[i].greetd_state : i \in DOMAIN cmdq} :
          /\ (g.tag = "AuthQuestion") => g.session.type \in {"Visible", "Secret"}
          /\ (g.tag = "AuthInformative" /\ g.sub = "NotSent")
                => g.session.type \in {"Info", "Error"}
    /\ (/\ self.greetd_state.tag = "AuthInformative"
        /\ self.greetd_state.sub # "NotSent"
        /\ cmdq = <<>>)
          => /\ self.greetd_state.prompt = hist.prompt.text
             /\ self.greetd_state.sub =
                    (IF hist.prompt.type = "Info" THEN "WaitingForInfo"
                     ELSE "WaitingForError")

\* A respond on one prompt was answered with a prompt of another text, and
\* the controller holds the new one.
C23_Witness ==
    /\ last.step = "update_cmd"
    /\ last.cmd.task.op = "respond"
    /\ last.cmd.io.response.type = "auth_message"
    /\ last.cmd.io.response.auth_message # last.cmd.task.session.message
    /\ self.greetd_state.tag = "AuthQuestion"
    /\ self.greetd_state.session.message = last.cmd.io.response.auth_message

\* The state the reply `response` selects, on the connection.
SuccessorOf(response) ==
    CASE response.type = "success" -> Startable(Client)
      [] response.type = "auth_message"
           /\ response.auth_message_type \in {"Visible", "Secret"} ->
            AuthQuestion(AuthMessage(Client, response.auth_message_type,
                                     response.auth_message))
      [] response.type = "auth_message"
           /\ response.auth_message_type \in {"Info", "Error"} ->
            AuthInformativeNotSent(AuthMessage(Client, response.auth_message_type,
                                               response.auth_message))

\* C24: create_session and respond turn the reply they read into the same
\* successor: success into Startable, a visible or secret auth_message into
\* AuthQuestion, an info or error auth_message into AuthInformative, each
\* with the reply's text, without error, whatever state respond was invoked
\* on.
C24_SameSuccessorSelection ==
    \A c \in Delivered :
        (/\ c.task.op \in {"create_session", "respond"}
         /\ c.io.read
         /\ c.io.response.type \in {"success", "auth_message"})
            => /\ c.greetd_state = SuccessorOf(c.io.response)
               /\ c.res.outer = "Ok" /\ c.res.inner = "Ok"
               /\ c.res.next.variant =
                      (CASE c.greetd_state.tag = "Startable" -> "Success"
                         [] OTHER -> c.greetd_state.tag)
               /\ ~c.error.some

\* In a run from NotCreated, the respond sent for prompt 2 was answered with
\* a further, informative, message: prompts chain.
C24_Witness ==
    \E c \in Delivered :
        /\ c.task.op = "respond"
        /\ c.task.session.message = 2
        /\ hist.init = "NotCreated"
        /\ c.io.read
        /\ c.io.response.type = "auth_message"
        /\ c.io.response.auth_message_type = "Error"
        /\ c.greetd_state.tag = "AuthInformative"

\* C25 (as claimed): after update_cmd handled a daemon error or a transport
\* failure, a NotifyError with that error was sent and the controller holds
\* NotCreated, Startable, AuthQuestion or AuthInformative together with the
\* connection.
C25_ErrorNotifiedAndStateHeld ==
    (/\ last.step = "update_cmd"
     /\ (DaemonError(last.cmd.io) \/ TransportFailure(last.cmd.io)))
        => /\ last.cmd.error.some
           /\ NotifyError(last.cmd.error) \in Outputs
           /\ self.greetd_state.tag \in
                  {"NotCreated", "Startable", "AuthQuestion", "AuthInformative"}
           /\ Holds(self.greetd_state)

\* The entries of `list` of users other than `username`, in order.
Without(list, username) ==
    LET Other(e) == e.user # username IN SelectSeq(list, Other)

\* The entries of `list` that no entry of the same user precedes, in order.
FirstOccurrences(list) ==
    LET keep == {i \in DOMAIN list : \A j \in 1..(i - 1) : list[j].user # list[i].user}
        nth(k) == CHOOSE i \in keep : Cardinality({j \in keep : j <= i}) = k
    IN [k \in 1..Cardinality(keep) |-> list[nth(k)]]

NoDuplicates(list) ==
    \A i, j \in DOMAIN list : i # j => list[i].user # list[j].user

\* The first `limit` entries of `list`: the most recent ones.
MostRecent(list, limit) ==
    [k \in 1..(IF Len(list) < limit THEN Len(list) ELSE limit) |-> list[k]]

\* C26: after set_last_login(user, session) the list is (user, session)
\* followed by the entries the list had before for the other users, each
\* with its session and in the same order; the user occurs once.
C26_SetLastLoginMovesToFront ==
    cache_last.op = "set_last_login" =>
        /\ cache.user_to_last_sess =
              <<Entry(cache_last.username, cache_last.session)>>
                  \o Without(cache_last.pre, cache_last.username)
        /\ Cardinality({i \in DOMAIN cache.user_to_last_sess :
                           cache.user_to_last_sess[i].user = cache_last.username}) = 1
        /\ \A u \in CacheUsernames \ {cache_last.username} :
              last_user_session(cache, u) =
                  last_user_session([user_to_last_sess |-> cache_last.pre], u)

\* The user in the middle of three logged in with another session.
C26_Witness ==
    /\ cache_last.op = "set_last_login"
    /\ Len(cache_last.pre) = 3
    /\ cache_last.pre[2].user = cache_last.username
    /\ cache_last.pre[2].session # cache_last.session
    /\ Len(cache.user_to_last_sess) = 3
    /\ cache.user_to_last_sess[2] = cache_last.pre[1]
    /\ cache.user_to_last_sess[3] = cache_last.pre[3]

\* C27: the list in memory never holds a username twice; after
\* set_last_login, last_user is its user; last_user_session(u) is the session
\* of u's most recent set_last_login; load keeps, of the stored entries of
\* one user, the one nearest the front, and so does save of the list it is
\* given.
C27_NoDuplicateUsers ==
    /\ NoDuplicates(cache.user_to_last_sess)
    /\ cache_last.op = "set_last_login" => last_user(cache) = cache_last.username
    /\ \A u \in CacheUsernames :
          cache_last.logins[u] # NoSession =>
              last_user_session(cache, u) = cache_last.logins[u]
    /\ (cache_last.op = "load" /\ cache_last.ok) =>
          /\ cache.user_to_last_sess =
                MostRecent(FirstOccurrences(file), cache_last.limit)
          /\ \A u \in CacheUsernames :
                last_user_session(cache, u) \in
                    {NoSession, last_user_session([user_to_last_sess |-> file], u)}
    /\ (cache_last.op = "save" /\ cache_last.ok) =>
          /\ NoDuplicates(file)
          /\ file = MostRecent(FirstOccurrences(cache_last.pre), cache_last.limit)

\* A file that names one user twice, with different sessions, was loaded.
C27_Witness ==
    /\ cache_last.op = "load"
    /\ cache_last.ok
    /\ cache_last.limit = 2
    /\ Len(file) = 3
    /\ file[1].user = file[2].user
    /\ file[1].session # file[2].session
    /\ file[3].user # file[1].user
    /\ cache.user_to_last_sess = <<file[1], file[3]>>

\* C28 (as claimed): after load(limit), in the file after save(limit), and in
\* memory after every set_last_login of a cache that was loaded or saved
\* with a limit of at least one, the list holds at most limit entries.
C28_AlwaysCapped ==
    /\ (cache_last.op = "load" /\ cache_last.ok) =>
          Len(cache.user_to_last_sess) <= cache_last.limit
    /\ (cache_last.op = "save" /\ cache_last.ok) => Len(file) <= cache_last.limit
    /\ (cache_last.op = "set_last_login" /\ cache_last.limit >= 1) =>
          Len(cache.user_to_last_sess) <= cache_last.limit

\* C28 (amended): after load(limit) the list in memory, and after save(limit)
\* the list in the file, hold at most limit entries, the most recent ones of
\* the deduplicated list; set_last_login does not cap: it drops no other
\* user's entry, and the list in memory grows by at most one entry per call.
C28_CappedOnLoadAndSave ==
    /\ (cache_last.op = "load" /\ cache_last.ok) =>
          /\ Len(cache.user_to_last_sess) <= cache_last.limit
          /\ cache.user_to_last_sess =
                MostRecent(FirstOccurrences(file), cache_last.limit)
    /\ (cache_last.op = "save" /\ cache_last.ok) =>
          /\ Len(file) <= cache_last.limit
          /\ file = MostRecent(FirstOccurrences(cache_last.pre), cache_last.limit)
    /\ cache_last.op = "set_last_login" =>
          /\ Len(cache.user_to_last_sess) <= Len(cache_last.pre) + 1
          /\ Len(cache.user_to_last_sess) >= Len(cache_last.pre)
          /\ \A i \in DOMAIN cache_last.pre :
                last_user_session(cache, cache_last.pre[i].user) # NoSession

\* A list that had grown to three entries in memory was saved with limit 2.
C28_Witness ==
    /\ cache_last.op = "save"
    /\ cache_last.ok
    /\ cache_last.limit = 2
    /\ Len(cache_last.pre) = 3
    /\ file = <<cache_last.pre[1], cache_last.pre[2]>>

\* C30: with require_confirm, the action is emitted only by a Confirmation
\* handled in ConfirmTheAction, never by a message handled in Normal;
\* ConfirmTheAction is entered only from Normal, by Unconfirmed or
\* Confirmation, and only with require_confirm; a Cancel always leaves the
\* button in Normal without output.  Without require_confirm every
\* Unconfirmed or Confirmation emits the action at once.  require_confirm
\* never changes.
C30_ActionNeedsConfirmation ==
    /\ button.state = "ConfirmTheAction" => button.require_confirm
    /\ button_last.msg # "none" =>
          /\ button.require_confirm = button_last.pre.require_confirm
          /\ button_last.out \in {<<>>, <<ActionButtonOutput>>}
          /\ (button.require_confirm /\ button_last.out # <<>>) =>
                /\ button_last.msg = "Confirmation"
                /\ button_last.pre.state = "ConfirmTheAction"
                /\ button.state = "Normal"
          /\ (button.require_confirm /\ button_last.pre.state = "Normal") =>
                button_last.out = <<>>
          /\ (button.state = "ConfirmTheAction" /\ button_last.pre.state = "Normal") =>
                button_last.msg \in {"Unconfirmed", "Confirmation"}
          /\ button_last.msg = "Cancel" =>
                button.state = "Normal" /\ button_last.out = <<>>
          /\ (~button.require_confirm /\ button_last.msg \in {"Unconfirmed", "Confirmation"}) =>
                button_last.out = <<ActionButtonOutput>> /\ button.state = "Normal"

\* A confirmation was handled while the button asked for it.
C30_Witness ==
    /\ button.require_confirm
    /\ button_last.msg = "Confirmation"
    /\ button_last.pre.state = "ConfirmTheAction"
    /\ button_last.out = <<ActionButtonOutput>>
    /\ button.state = "Normal"

\* The positions of the lock outputs among the outputs of the last handler.
LockOutputs ==
    {i \in DOMAIN out : out[i] \in {LockUserSelectors, UnlockUserSelectors}}

\* C31: once a handler (update on an input message, update_cmd on a command
\* result) has run to its end, the outputs it sent hold exactly one lock
\* output, the last of them: UnlockUserSelectors if the state is NotCreated,
\* LockUserSelectors in every other state, Loading and SessionStarted
\* included.
C31_OneLockOutputPerHandler ==
    (last.step # "init" /\ ~panicked) =>
        /\ Cardinality(LockOutputs) = 1
        /\ LockOutputs = {Len(out)}
        /\ (out[Len(out)] = UnlockUserSelectors) <=> (self.greetd_state.tag = "NotCreated")
        /\ (out[Len(out)] = LockUserSelectors) <=> (self.greetd_state.tag # "NotCreated")

\* update_cmd handled the success of a cancel_session and unlocked.
C31_Witness ==
    /\ last.step = "update_cmd"
    /\ last.cmd.task.op = "cancel_session"
    /\ last.pre.greetd_state.tag = "Loading"
    /\ self.greetd_state.tag = "NotCreated"
    /\ out = <<UnlockUserSelectors>>

\* C32: a protocol operation whose write or read failed returns
\* Err((current, IO error)): current is the value the operation was invoked
\* on, with the connection in it and, for a prompt, the same kind and text.
C32_TransportErrorKeepsState ==
    \A c \in Delivered :
        (c.task.op # "none" /\ TransportFailure(c.io)) =>
            /\ c.res = IoErr(c.task.session, IoError)
            /\ c.res.current.rw = "conn"
            /\ message(c.res.current) = message(c.task.session)
            /\ variant(c.task.variant, c.res.current)
                  = variant(c.task.variant, c.task.session)

\* The write of the acknowledgement of an informative prompt failed.
C32_Witness ==
    \E c \in Delivered :
        /\ c.task.op = "respond"
        /\ c.task.session.type = "Info"
        /\ c.io = WriteFailed
        /\ c.res.outer = "Err"
        /\ c.res.current.type = "Info"
        /\ c.res.current.message = c.task.session.message

\* What C33 says of the request a command carries.
CredentialByState(t) ==
    /\ (t.op = "respond" /\ t.variant = "AuthQuestion") =>
          /\ t.by = "update"
          /\ RequestOf(t).type = "post_auth_message_response"
          /\ RequestOf(t).response = t.credential
    /\ (t.op = "respond" /\ t.variant = "AuthInformative") =>
          /\ RequestOf(t).type = "post_auth_message_response"
          /\ RequestOf(t).response = NoneStr
    /\ t.op \in {"create_session", "start_session", "cancel_session"} =>
          /\ RequestOf(t).type # "post_auth_message_response"
          /\ RequestOf(t).response = NoneStr

\* C33: an advance handled in AuthQuestion spawns a
\* post_auth_message_response with exactly its credential; one handled in
\* AuthInformative (not yet acknowledged) spawns one with null; one handled
\* in NotCreated or Startable spawns no post_auth_message_response and its
\* credential is in no request; a question is answered only by an advance,
\* and every acknowledgement of an informative prompt carries null.
C33_CredentialByState ==
    /\ \A i \in DOMAIN tasks : CredentialByState(tasks[i])
    /\ last.step \in {"write", "write_failed"} => CredentialByState(last.task)
    /\ (last.step = "update" /\ last.msg.type = "AdvanceAuthentication") =>
          /\ \A i \in DOMAIN last.spawned : CredentialByState(last.spawned[i])
          /\ last.pre.greetd_state.tag = "AuthQuestion" =>
                /\ Len(last.spawned) = 1
                /\ RequestOf(last.spawned[1]).type = "post_auth_message_response"
                /\ RequestOf(last.spawned[1]).response = last.msg.credential
          /\ (/\ last.pre.greetd_state.tag = "AuthInformative"
              /\ last.pre.greetd_state.sub = "NotSent") =>
                /\ Len(last.spawned) = 1
                /\ RequestOf(last.spawned[1]).type = "post_auth_message_response"
                /\ RequestOf(last.spawned[1]).response = NoneStr
          /\ last.pre.greetd_state.tag \in {"NotCreated", "Startable"} =>
                \A i \in DOMAIN last.spawned :
                    /\ last.spawned[i].op \in {"create_session", "start_session"}
                    /\ RequestOf(last.spawned[i]).response = NoneStr

\* An advance that carried a credential was handled on an informative prompt.
C33_Witness ==
    /\ last.step = "update"
    /\ last.msg.type = "AdvanceAuthentication"
    /\ last.msg.credential.some
    /\ last.pre.greetd_state.tag = "AuthInformative"
    /\ Len(last.spawned) = 1
    /\ RequestOf(last.spawned[1]) = PostAuthMessageResponse(NoneStr)

\* C34: a command writes its request once and then reads once: a request is
\* written only while no other request waits for its response, a response is
\* read only for a request that was written, a failed write is followed by no
\* read, and the command is finished once it has read.
C34_OneExchangePerOperation ==
    /\ Awaiting <= 1
    /\ last.step = "write" =>
          /\ last.task.phase = "spawned"
          /\ Awaiting = 1
    /\ last.step = "read" =>
          /\ last.task.phase = "awaiting"
          /\ last.cmd.io.write /\ last.cmd.io.read
          /\ last.cmd.io.response \in ResponsesTo(last.task.op)
          /\ Awaiting = 0
          /\ tasks = <<>>
    /\ last.step = "write_failed" =>
          /\ last.task.phase = "spawned"
          /\ ~last.cmd.io.write /\ ~last.cmd.io.read
          /\ Awaiting = 0
          /\ tasks = <<>>
    /\ \A c \in Delivered : c.task.op # "none" => (c.io.read => c.io.write)

\* The response to a second request on the connection was read.
C34_Witness ==
    /\ last.step = "read"
    /\ last.task.op = "respond"
    /\ last.task.by = "update_cmd"
    /\ hist.init = "NotCreated"
    /\ Awaiting = 0

\* The username of the create_session request issued most recently: the one
\* a command is about to write or failed to write, else the last one written.
MostRecentCreateSession ==
    LET unwritten == {i \in DOMAIN tasks :
                         tasks[i].op = "create_session" /\ tasks[i].phase = "spawned"}
        failed == {i \in DOMAIN cmdq :
                      cmdq[i].task.op = "create_session" /\ ~cmdq[i].io.write}
    IN IF unwritten # {}
       THEN RequestOf(tasks[CHOOSE i \in unwritten : TRUE]).username
       ELSE IF failed # {}
       THEN RequestOf(cmdq[CHOOSE i \in failed : TRUE].task).username
       ELSE hist.user

\* C35: in a run that starts in NotCreated, whenever the state is not
\* NotCreated the stored username is the one of the most recent
\* create_session request, and whenever the daemon holds a session (it
\* answered with success or a prompt and no cancel succeeded since) the
\* stored username is the one written in its create_session.
C35_UsernameIsSessionUser ==
    hist.init = "NotCreated" =>
        /\ self.greetd_state.tag # "NotCreated" => self.username = MostRecentCreateSession
        /\ (hist.authOK \/ hist.prompt # NoPrompt) => self.username = hist.user

\* A question of the daemon is shown for the second user.
C35_Witness ==
    /\ hist.init = "NotCreated"
    /\ last.step = "update_cmd"
    /\ self.greetd_state.tag = "AuthQuestion"
    /\ self.username = 2
    /\ hist.user = 2

\* C36: the SessionStarted output is sent at most once, by the update_cmd
\* that handles the success answering a start_session, and it has been sent
\* once that success is handled; after it no command exists, nothing owns
\* the connection and no request is written or answered, whatever input is
\* handled.
C36_SessionStartedOnce ==
    /\ hist.emitted <= 1
    /\ hist.emitted = 1 =>
          /\ hist.started
          /\ tasks = <<>>
          /\ cmdq = <<>>
          /\ Holders = 0
          /\ last.step \in {"update", "update_cmd"}
          /\ last.spawned = <<>>
    /\ (last.step = "update_cmd" /\ SessionStartedOutput \in Outputs) =>
          /\ last.cmd.task.op = "start_session"
          /\ last.cmd.io = Answered(Success)
          /\ hist.emitted = 1
    /\ (last.step = "update" /\ ~panicked) => SessionStartedOutput \notin Outputs
    /\ (hist.started /\ cmdq = <<>>) => hist.emitted = 1

\* An advance was handled after the session had started: nothing was sent.
C36_Witness ==
    /\ hist.emitted = 1
    /\ last.step = "update"
    /\ last.msg.type = "AdvanceAuthentication"
    /\ last.pre.greetd_state.tag = "SessionStarted"
    /\ tasks = <<>>

\* C37 (as claimed): a Cancel or an AdvanceAuthentication handled while the
\* acknowledgement of an informative prompt is in flight is answered with
\* the 'operation is currently pending' notification, spawns no command and
\* leaves the state as it was.
C37_PendingInputLeavesState ==
    (/\ last.step = "update"
     /\ last.msg.type \in {"Cancel", "AdvanceAuthentication"}
     /\ last.pre.greetd_state.tag = "AuthInformative"
     /\ last.pre.greetd_state.sub # "NotSent")
        => /\ \/ NotifyError(PendingCancelText) \in Outputs
              \/ NotifyError(PendingAdvanceText) \in Outputs
           /\ last.spawned = <<>>
           /\ self.greetd_state = last.pre.greetd_state

\* The step that led here read an auth_message.
ReadAuthMessage == last.step = "read" /\ last.cmd.io.response.type = "auth_message"

InFlight == tasks # <<>> \/ cmdq # <<>>

\* C38 (as claimed): when the caller has stopped and the daemon answers
\* every request, then, unless the daemon issues prompts forever, the
\* controller reaches a state with no command and no result in flight and
\* stays there.
C38_Quiescence == ([]<>ReadAuthMessage) \/ (<>[]~InFlight)

\* The daemon's answers C39 assumes: create_session and
\* post_auth_message_response are answered with success or with an info or
\* error auth_message, start_session with success.
AnswersLeadToStart ==
    last.step = "read" =>
        \/ last.cmd.io.response = Success
        \/ /\ last.task.op \in {"create_session", "respond"}
           /\ last.cmd.io.response.type = "auth_message"
           /\ last.cmd.io.response.auth_message_type \in {"Info", "Error"}

\* The controller is in NotCreated with a command stored and the one input
\* sent to it is an AdvanceAuthentication.
OneAdvanceFromNotCreated ==
    IF Len(inq) = 1
    THEN /\ self.greetd_state.tag = "NotCreated"
         /\ self.command.some
         /\ inq[1].type = "AdvanceAuthentication"
    ELSE FALSE

\* C39: in NotCreated with a command stored, when the one input the caller
\* sends is an AdvanceAuthentication and the daemon answers as
\* AnswersLeadToStart says, with finitely many auth_messages, the controller
\* reaches SessionStarted.
C39_AdvanceLeadsToSessionStarted ==
    (/\ OneAdvanceFromNotCreated
     /\ []AnswersLeadToStart
     /\ <>[]~ReadAuthMessage)
        => <>(self.greetd_state.tag = "SessionStarted" /\ hist.emitted = 1)

\* The session was started by the command update_cmd spawned by itself, in a
\* run from NotCreated with one input.
C39_Witness ==
    /\ hist.init = "NotCreated"
    /\ self.greetd_state.tag = "SessionStarted"
    /\ hist.emitted = 1
    /\ last.step = "update_cmd"
    /\ last.cmd.task.op = "start_session"
    /\ last.cmd.task.by = "update_cmd"
    /\ inq = <<>>
====
